---- MODULE Spec2Model ----
(***************************************************************************)
(* A model of the llmcc symbol-resolution and slicing core:                *)
(*   - llmcc/ir.py      Node, Scope, Graph.resolve_name, create_node       *)
(*   - llmcc/slicer.py  Slicer, collect_class_data, collect_class_func     *)
(*   - llmcc/parser.py    _tree_to_graph, the walk that creates the nodes   *)
(*   - llmcc/includer.py  search_file, Includer, include_graph              *)
(*   - llmcc/compiler.py  Compiler.compile and Compiler.visit               *)
(*   - the versioned Store, as the specification gives it                   *)
(* Qualified names of graph nodes are modelled as sequences of one         *)
(* character strings, so that str.split, str.startswith and str.endswith   *)
(* are computed and not assumed.                                           *)
(***************************************************************************)
EXTENDS Integers, Sequences, FiniteSets, TLC

VARIABLES
    \* ---- program graph (ir.py Graph, create_node) ----
    gid,        \* the module-level counter _id
    id_map,     \* Graph.id_map: id -> node record
    node_map,   \* Graph.node_map: insertion-ordered dict, a sequence of <<name, id>>
    gphase,     \* "new" | "build" | "name" | "ready"
    cursor,     \* the next node the Namer pass names
    query,      \* the last resolve_name call, or NoQuery
    resolved,   \* the list resolve_name returned (node ids, in result order)
    \* ---- lexical scopes (ir.py Scope) ----
    scopes,     \* the Scope objects made so far: [root, nodes, parent]
    bound,      \* history: per scope and name, the value of the latest define
    lookup,     \* the outcome of the last Scope.resolve call, or NoLookup
    \* ---- slicer (slicer.py Slicer) ----
    prog,             \* the type definitions of the sliced unit
    frames,           \* the active impl_class_specifier calls, innermost last
    data_fields,      \* Slicer.data_fields
    func_definitions, \* Slicer.func_definitions
    nested_classes,   \* Slicer.nested_classes
    cur_scope,        \* Slicer.scope, an index into scopes
    slice_store,      \* per type node: Node.slice_store
    passes,           \* how many times the unit has been sliced
    written,          \* history: the types given a snapshot in the current pass
    slice_raised,     \* the exception slice_graph was left by, or "none"
    \* ---- one collect_class_func call on its own ----
    ov_funcs,   \* the inline member functions handed to the call
    ov_i,       \* the position of the loop over them
    ov_text,    \* func_text as built so far
    ov_call,    \* the outcome of the call, or NoCall
    \* ---- parse passes (parser.py _tree_to_graph) ----
    sched,      \* "serial": one parse call at a time; "threads": calls interleave
    ts_trees,   \* per pass: the tree-sitter tree handed to _tree_to_graph
    pg,         \* per pass: the Graph under construction and the locals of the walk
    \* ---- one versioned store (store.py Store) ----
    vstore,     \* the Store object
    vlast,      \* history: the payload of the most recent add_version, or NoPayload
    vget,       \* the outcome of the last get_current_version call, or NoGet
    \* ---- includer (includer.py Includer, include_graph) ----
    disk,        \* the files under the search root: file name -> content
    graphs,      \* the Graph objects made so far: [name, text, items, depend_store]
    lists,       \* the include_files list objects made so far
    includers,   \* the Includer objects made so far: [og, include_files]
    iframes,     \* the active Includer.visit calls, innermost last
    istatus,     \* the state of the outermost include_graph call and its result
    dep_written, \* history: what each dependency version listed when it was added
    \* ---- compiler (compiler.py Compiler) ----
    cunits,      \* the types of the children of the root node handed to compile_graph
    cpos,        \* the node Compiler.compile is working on, a position in Work
    attempt,     \* the loop variable i of compile, counted from 1
    parsed,      \* whether the local variable parsed of compile is bound
    code_store,  \* per node of Work: Node.code_store
    cstatus,     \* the state of the compile_graph call: running, done or raised
    ctried,      \* history: per node of Work, the oracle's outputs for it
    \* ---- Python facade (api.py run) ----
    api_args,    \* the arguments of one llmcc.run call
    api_pc,      \* "idle" | "start" | "raised" | "calling" | "returned"
    api_error,   \* the exception raised: [type, message], or NoError
    api_calls,   \* how many times run_llmcc was invoked
    api_passed,  \* the keyword arguments run_llmcc was invoked with
    backend_out, \* what run_llmcc returned
    api_result   \* what run returned

graphVars == <<gid, id_map, node_map, gphase, cursor, query, resolved>>
scopeVars == <<scopes, bound, lookup>>
sliceVars == <<prog, frames, data_fields, func_definitions, nested_classes,
               cur_scope, slice_store, passes, written, slice_raised>>

overloadVars == <<ov_funcs, ov_i, ov_text, ov_call>>

parseVars == <<sched, ts_trees, pg>>

storeVars == <<vstore, vlast, vget>>

includeVars == <<disk, graphs, lists, includers, iframes, istatus, dep_written>>

compileVars == <<cunits, cpos, attempt, parsed, code_store, cstatus, ctried>>

apiVars == <<api_args, api_pc, api_error, api_calls, api_passed, backend_out, api_result>>

pipelineVars == <<parseVars, storeVars, includeVars, compileVars, apiVars>>

vars == <<graphVars, scopeVars, sliceVars, overloadVars, pipelineVars>>

-----------------------------------------------------------------------------
(* Bounds *)

MaxNodes == 4
MaxScopes == 3
MaxTypes == 3
MaxPasses == 2
MaxOverloads == 101
MaxTsNodes == 4
MaxThreadNodes == 3
MaxVersions == 4
MaxItems == 2
MaxDepth == 5
MaxUnits == 2

-----------------------------------------------------------------------------
(* Python string and list primitives, on sequences of characters *)

NoName == <<"<None>">>

\* str.startswith(c) / str.endswith(c) for a one-character c
StartsWith(s, c) == Len(s) > 0 /\ s[1] = c
EndsWith(s, c) == Len(s) > 0 /\ s[Len(s)] = c

\* index of the first c in s, or 0
FirstIndex(s, c) ==
    IF \E i \in 1..Len(s) : s[i] = c
    THEN CHOOSE i \in 1..Len(s) : s[i] = c /\ \A j \in 1..(i - 1) : s[j] # c
    ELSE 0

\* str.split(c): the list of pieces between occurrences of c ("" gives [""])
RECURSIVE Split(_, _)
Split(s, c) ==
    LET i == FirstIndex(s, c)
    IN  IF i = 0 THEN <<s>>
        ELSE <<SubSeq(s, 1, i - 1)>> \o Split(SubSeq(s, i + 1, Len(s)), c)

\* list.pop() seen as a value: the list without its last element
Pop(l) == SubSeq(l, 1, Len(l) - 1)

\* l[-1]
LastOf(l) == l[Len(l)]

\* dict[k] = v on an insertion-ordered dict: an existing key keeps its position
DictSet(d, k, v) ==
    IF \E i \in 1..Len(d) : d[i][1] = k
    THEN [i \in 1..Len(d) |-> IF d[i][1] = k THEN <<k, v>> ELSE d[i]]
    ELSE Append(d, <<k, v>>)

-----------------------------------------------------------------------------
(* Program graph: create_node and the Namer pass *)

NoQuery == [name |-> NoName, cur |-> 0, allow |-> FALSE]

\* the local identifiers and the overload-signature segments the Namer uses
Idents == {<<"h">>, <<"g">>}
Sigs == {<<"(", "i", ")">>}
Kinds == {"decl", "func"}

\* file_name of _tree_to_graph: None, or the path parse_from_file was given
FileNames == {NoName, <<"a", ".", "h">>}

\* ir.py create_node: bump the global counter (reset first when restart is
\* set) and register the new node under its id.  Gives <<_id', id_map'>>.
\* (create_nodeAlwaysRestart: the counter reset on every call)
create_nodeAlwaysRestart(ctr, imap, parent, restart) ==
    LET nid == 1
        node == [id |-> nid, parent |-> parent, name |-> NoName]
    IN  <<nid, [k \in (DOMAIN imap) \cup {nid} |-> IF k = nid THEN node ELSE imap[k]]>>

create_node(ctr, imap, parent, restart) ==
    LET base == IF restart THEN 0 ELSE ctr
        nid == base + 1
        node == [id |-> nid, parent |-> parent, name |-> NoName]
    IN  <<nid, [k \in (DOMAIN imap) \cup {nid} |-> IF k = nid THEN node ELSE imap[k]]>>

\* the enclosing name chain a declaration is qualified with: the parent's
\* qualified name without its signature segment
NameChain(pname) ==
    LET n == Len(pname)
    IN  IF EndsWith(pname, ")") /\ \E i \in 1..n : pname[i] = "("
        THEN LET i == CHOOSE k \in 1..n : pname[k] = "(" /\ \A j \in (k + 1)..n : pname[j] # "("
             IN  SubSeq(pname, 1, IF i > 1 /\ pname[i - 1] = "." THEN i - 2 ELSE i - 1)
        ELSE pname

\* Namer: the qualified name of a declaration, a function carrying its
\* signature as a last parenthesised segment
QualifiedName(pname, ident, kind, sig) ==
    LET chain == NameChain(pname)
        base == IF chain = <<>> THEN ident ELSE chain \o <<".">> \o ident
    IN  IF kind = "func" THEN base \o <<".">> \o sig ELSE base

\* parser.py _tree_to_graph, lines 41-43: the root node restarts the id
\* counter and is named file_name (None for parse, the path for parse_from_file)
CreateRoot(file_name) ==
    /\ gphase = "new"
    /\ LET r == create_node(gid, id_map, 0, TRUE)
       IN  /\ gid' = r[1]
           /\ id_map' = [r[2] EXCEPT ![r[1]].name = file_name]
    /\ gphase' = "build"
    /\ UNCHANGED <<node_map, cursor, query, resolved>>
    /\ UNCHANGED <<scopeVars, sliceVars, overloadVars, pipelineVars>>

\* parser.py _tree_to_graph, lines 51-54: one child node under a node that
\* was created before it
CreateChild(p) ==
    /\ gphase = "build"
    /\ gid < MaxNodes
    /\ p \in DOMAIN id_map
    /\ LET r == create_node(gid, id_map, p, FALSE)
       IN  /\ gid' = r[1]
           /\ id_map' = r[2]
    /\ UNCHANGED <<node_map, gphase, cursor, query, resolved>>
    /\ UNCHANGED <<scopeVars, sliceVars, overloadVars, pipelineVars>>

\* parser.py line 56: the walk is over, the Namer pass starts; on a graph of
\* the root alone it has no node to name
StartNaming ==
    /\ gphase = "build"
    /\ gphase' = IF gid >= 2 THEN "name" ELSE "ready"
    /\ cursor' = 2
    /\ UNCHANGED <<gid, id_map, node_map, query, resolved>>
    /\ UNCHANGED <<scopeVars, sliceVars, overloadVars, pipelineVars>>

\* Namer: the name chain a node is declared in; the root, which carries the
\* file name, adds nothing to it
EnclosingName(imap, n) ==
    LET par == imap[n].parent
    IN  IF imap[par].parent = 0 THEN <<>> ELSE imap[par].name

\* Namer: name the next node and keep node_map in step with the assignment
AssignName(ident, kind, sig) ==
    /\ gphase = "name"
    /\ cursor \in DOMAIN id_map
    /\ LET nm == QualifiedName(EnclosingName(id_map, cursor), ident, kind, sig)
       IN  /\ id_map' = [id_map EXCEPT ![cursor].name = nm]
           /\ node_map' = DictSet(node_map, nm, cursor)
    /\ cursor' = cursor + 1
    /\ gphase' = IF cursor = gid THEN "ready" ELSE "name"
    /\ UNCHANGED <<gid, query, resolved>>
    /\ UNCHANGED <<scopeVars, sliceVars, overloadVars, pipelineVars>>

-----------------------------------------------------------------------------
(* Graph.resolve_name, ir.py lines 148-173 *)

\* lines 154-156: the asking node's level
\* (LevelNoFunc: the level without the adjustment for a function's name)
LevelNoFunc(curname) == Len(Split(curname, "."))

Level(curname) ==
    LET n == Len(Split(curname, "."))
    IN  IF EndsWith(curname, ")") THEN n - 1 ELSE n

\* lines 161-165: a candidate's parts, a parenthesised last part popped
NodeParts(node_name) ==
    LET parts == Split(node_name, ".")
    IN  IF StartsWith(LastOf(parts), "(") /\ EndsWith(LastOf(parts), ")")
        THEN Pop(parts)
        ELSE parts

\* lines 166-170: the test a candidate has to pass
\* (MatchesWithSelf: the id test left out; MatchesAnyLevel: the same-level
\* branch also admitting deeper candidates)
MatchesWithSelf(parts, name, nid, curid, level, allow) ==
    /\ Len(parts) > 0
    /\ LastOf(parts) = name
    /\ (Len(parts) < level \/ (allow /\ Len(parts) = level))

MatchesAnyLevel(parts, name, nid, curid, level, allow) ==
    /\ Len(parts) > 0
    /\ LastOf(parts) = name
    /\ nid # curid
    /\ (Len(parts) < level \/ (allow /\ Len(parts) >= level))

Matches(parts, name, nid, curid, level, allow) ==
    /\ Len(parts) > 0
    /\ LastOf(parts) = name
    /\ nid # curid
    /\ (Len(parts) < level \/ (allow /\ Len(parts) = level))

\* the whole of resolve_name: the ids of the returned nodes, in node_map order
\* (resolve_nameFirst: the scan stopping at the first hit)
resolve_nameFirst(nmap, imap, name, cur, allow) ==
    LET level == Level(imap[cur].name)
        Hit(e) == Matches(NodeParts(e[1]), name, imap[e[2]].id, imap[cur].id, level, allow)
        hits == SelectSeq(nmap, Hit)
    IN  [i \in 1..(IF Len(hits) > 0 THEN 1 ELSE 0) |-> imap[hits[i][2]].id]

resolve_name(nmap, imap, name, cur, allow) ==
    LET level == Level(imap[cur].name)
        Hit(e) == Matches(NodeParts(e[1]), name, imap[e[2]].id, imap[cur].id, level, allow)
        hits == SelectSeq(nmap, Hit)
    IN  [i \in 1..Len(hits) |-> imap[hits[i][2]].id]

\* a caller asks for an identifier on behalf of a named node of the finished
\* graph (one call per run: the call changes nothing it reads)
ResolveName(name, cur, allow) ==
    /\ gphase = "ready"
    /\ query = NoQuery
    /\ cur \in DOMAIN id_map
    /\ cur # 1
    /\ query' = [name |-> name, cur |-> cur, allow |-> allow]
    /\ resolved' = resolve_name(node_map, id_map, name, cur, allow)
    /\ UNCHANGED <<gid, id_map, node_map, gphase, cursor>>
    /\ UNCHANGED <<scopeVars, sliceVars, overloadVars, pipelineVars>>

InitGraph ==
    /\ gid = 0
    /\ id_map = <<>>
    /\ node_map = <<>>
    /\ gphase = "new"
    /\ cursor = 0
    /\ query = NoQuery
    /\ resolved = <<>>

NextGraph ==
    \/ \E file_name \in FileNames : CreateRoot(file_name)
    \/ \E p \in 1..MaxNodes : CreateChild(p)
    \/ StartNaming
    \/ \E ident \in Idents, kind \in Kinds, sig \in Sigs : AssignName(ident, kind, sig)
    \/ \E name \in Idents, cur \in 1..MaxNodes, allow \in BOOLEAN : ResolveName(name, cur, allow)


-----------------------------------------------------------------------------
(* Scope, ir.py lines 102-127 *)

ScopeNames == {"a", "b"}
ScopeValues == {1, 2}
NoNode == 0
NoLookup == [scope |-> 0, name |-> "", error |-> FALSE, value |-> NoNode]

\* Scope.__init__, lines 103-107: no bindings, a link to the parent (0 is None)
NewScopeObj(root, parent) == [root |-> root, nodes |-> <<>>, parent |-> parent]

\* Scope.define, lines 109-110, on the dict of one scope
\* (defineKeepFirst: an existing binding is kept, as dict.setdefault would)
defineKeepFirst(nodes, name, value) ==
    IF name \in DOMAIN nodes THEN nodes
    ELSE [n \in (DOMAIN nodes) \cup {name} |-> IF n = name THEN value ELSE nodes[n]]

define(nodes, name, value) ==
    [n \in (DOMAIN nodes) \cup {name} |-> IF n = name THEN value ELSE nodes[n]]

\* Scope.resolve, lines 112-118: local bindings first, then the parent, and
\* NameError when the chain ends
\* (resolveNoRaise: the final else branch missing, the call gives None)
RECURSIVE resolveNoRaise(_, _, _)
resolveNoRaise(scs, s, name) ==
    IF name \in DOMAIN scs[s].nodes
    THEN [error |-> FALSE, value |-> scs[s].nodes[name]]
    ELSE IF scs[s].parent # 0
         THEN resolveNoRaise(scs, scs[s].parent, name)
         ELSE [error |-> FALSE, value |-> NoNode]

RECURSIVE resolve(_, _, _)
resolve(scs, s, name) ==
    IF name \in DOMAIN scs[s].nodes
    THEN [error |-> FALSE, value |-> scs[s].nodes[name]]
    ELSE IF scs[s].parent # 0
         THEN resolve(scs, scs[s].parent, name)
         ELSE [error |-> TRUE, value |-> NoNode]

\* Scope.get_scope_chain, lines 120-127: the scopes from the outermost but one
\* down to s (the outermost scope is dropped)
RECURSIVE UpChain(_, _)
UpChain(scs, s) ==
    IF scs[s].parent = 0 THEN <<s>> ELSE <<s>> \o UpChain(scs, scs[s].parent)

Reverse(l) == [i \in 1..Len(l) |-> l[Len(l) + 1 - i]]

get_scope_chain(scs, s) == Reverse(Pop(UpChain(scs, s)))

\* the outermost scope is made first, every later scope under an existing one
NewScope(parent) ==
    /\ lookup = NoLookup
    /\ Len(scopes) < MaxScopes
    /\ parent \in 0..Len(scopes)
    /\ parent = 0 <=> scopes = <<>>
    /\ scopes' = Append(scopes, NewScopeObj(0, parent))
    /\ bound' = Append(bound, [n \in ScopeNames |-> NoNode])
    /\ lookup' = NoLookup
    /\ UNCHANGED <<graphVars, sliceVars, overloadVars, pipelineVars>>

Define(s, name, value) ==
    /\ lookup = NoLookup
    /\ s \in 1..Len(scopes)
    /\ scopes' = [scopes EXCEPT ![s].nodes = define(scopes[s].nodes, name, value)]
    /\ bound' = [bound EXCEPT ![s][name] = value]
    /\ lookup' = NoLookup
    /\ UNCHANGED <<graphVars, sliceVars, overloadVars, pipelineVars>>

\* one lookup ends a run: it changes nothing a later call reads
Resolve(s, name) ==
    /\ lookup = NoLookup
    /\ s \in 1..Len(scopes)
    /\ LET r == resolve(scopes, s, name)
       IN  lookup' = [scope |-> s, name |-> name, error |-> r.error, value |-> r.value]
    /\ UNCHANGED <<scopes, bound>>
    /\ UNCHANGED <<graphVars, sliceVars, overloadVars, pipelineVars>>

InitScope ==
    /\ scopes = <<>>
    /\ bound = <<>>
    /\ lookup = NoLookup

NextScope ==
    \/ \E parent \in 0..MaxScopes : NewScope(parent)
    \/ \E s \in 1..MaxScopes, name \in ScopeNames, value \in ScopeValues : Define(s, name, value)
    \/ \E s \in 1..MaxScopes, name \in ScopeNames : Resolve(s, name)

-----------------------------------------------------------------------------
(* Slicer fragments, slicer.py lines 83-123.  In this part a qualified name  *)
(* is kept as the list of its dotted segments; Dotted gives the string.      *)

\* " " * n
RECURSIVE Spaces(_)
Spaces(n) == IF n <= 0 THEN "" ELSE " " \o Spaces(n - 1)

\* sep.join(segs)
RECURSIVE JoinStr(_, _)
JoinStr(segs, sep) ==
    IF Len(segs) = 0 THEN ""
    ELSE IF Len(segs) = 1 THEN segs[1]
    ELSE segs[1] \o sep \o JoinStr(Tail(segs), sep)

Dotted(name) == JoinStr(name, ".")

\* Node.scope_str, ir.py lines 67-75
scope_str(type) ==
    CASE type = "class_specifier" -> "class"
      [] type = "struct_specifier" -> "struct"
      [] type = "enum_specifier" -> "enum"
      [] type = "namespace_definition" -> "namespace"

\* collect_class_data, lines 87-90: one header per scope of the chain
RECURSIVE EmitHeaders(_, _, _, _)
EmitHeaders(scs, chain, text, indent) ==
    IF chain = <<>> THEN [text |-> text, indent |-> indent]
    ELSE LET root == scs[Head(chain)].root
             line == Spaces(indent) \o scope_str(root.type) \o " " \o LastOf(root.name) \o " {"
         IN  EmitHeaders(scs, Tail(chain), Append(text, line), indent + 4)

\* lines 91-93: the text of every field, in list order
RECURSIVE EmitFields(_, _, _)
EmitFields(fields, text, indent) ==
    IF fields = <<>> THEN text
    ELSE EmitFields(Tail(fields), Append(text, Spaces(indent) \o Head(fields)), indent)

\* lines 94-96: one closing delimiter per scope of the chain
RECURSIVE EmitClosers(_, _, _)
EmitClosers(chain, text, indent) ==
    IF chain = <<>> THEN [text |-> text, indent |-> indent]
    ELSE EmitClosers(Tail(chain), Append(text, Spaces(indent - 4) \o "}"), indent - 4)

\* collect_class_data, lines 83-98: the fragment text as its list of lines,
\* and the value the indent counter ends with
collect_class_data(scs, s, fields) ==
    LET chain == get_scope_chain(scs, s)
        h == EmitHeaders(scs, chain, <<>>, 0)
        f == EmitFields(fields, h.text, h.indent)
    IN  EmitClosers(chain, f, h.indent)

\* the ordinal bound of the key search, line 117
MaxOrdinal == 100

\* "override not in func_text"
HasKey(d, k) == \E i \in 1..Len(d) : d[i][1] = k

\* lines 117-122: the first ordinal in range(0, 100) whose key is free, or -1
FirstFree(func_text, prefix) ==
    LET free == {j \in 0..(MaxOrdinal - 1) : ~HasKey(func_text, prefix \o ToString(j))}
    IN  IF free = {} THEN -1 ELSE CHOOSE j \in free : \A k \in free : j <= k

\* A member function is kept as the fields of its function_definition node:
\* type, body, and the declarator, which is a function_declarator (name and
\* parameter list) standing alone (ptr "") or inside a pointer_declarator
\* (ptr "*") or a reference_declarator (ptr "&").

\* lines 110-111: name and para. name is the text of the declarator field of
\* the declarator: the identifier of a function_declarator, the
\* function_declarator inside a pointer_declarator. A reference_declarator has
\* no such field: child_by_field_name gives None, and Node(ts_node=None) fails
\* the validation of ts_node: TsNode (ir.py line 19), so line 110 raises
\* pydantic's ValidationError and line 111 is not reached. para is the text of
\* the whole declarator.
Declarator(f) ==
    CASE f.ptr = ""  -> [raised |-> "none", name |-> f.name,
                         para |-> f.ptr \o f.name \o f.params]
      [] f.ptr = "*" -> [raised |-> "none", name |-> f.name \o f.params,
                         para |-> f.ptr \o f.name \o f.params]
      [] OTHER       -> [raised |-> "ValidationError", name |-> "", para |-> ""]

\* lines 107-116: the text built for one member function, and the name given
\* to the root of its parse; nothing is built when line 110 raises
FragmentOf(class_name, f) ==
    LET d == Declarator(f)
    IN  IF d.raised # "none" THEN [raised |-> d.raised, name |-> "", text |-> ""]
        ELSE [raised |-> "none",
              name |-> Dotted(class_name) \o "." \o d.para,
              text |-> "\n        " \o f.type \o " " \o JoinStr(class_name, "::") \o "::"
                       \o d.para \o " " \o f.body \o "\n        "]

\* lines 107-122: one turn of the loop. A function for which no ordinal is
\* free leaves func_text as it is, and the loop goes on; a turn left by an
\* exception has changed nothing
FuncStep(class_name, f, func_text) ==
    LET d == Declarator(f)
        prefix == Dotted(class_name) \o "." \o d.name \o "."
        j == FirstFree(func_text, prefix)
        node == FragmentOf(class_name, f)
    IN  IF d.raised # "none" THEN [raised |-> d.raised, func_text |-> func_text]
        ELSE IF j = -1 THEN [raised |-> "none", func_text |-> func_text]
        ELSE [raised |-> "none",
              func_text |-> Append(func_text, <<prefix \o ToString(j),
                                                [name |-> node.name, text |-> node.text]>>)]

\* line 106: the loop over the functions, in list order; the first turn that
\* raises ends it
RECURSIVE FuncLoop(_, _, _)
FuncLoop(class_name, funcs, func_text) ==
    IF funcs = <<>> THEN [raised |-> "none", func_text |-> func_text]
    ELSE LET turn == FuncStep(class_name, Head(funcs), func_text)
         IN  IF turn.raised # "none" THEN turn
             ELSE FuncLoop(class_name, Tail(funcs), turn.func_text)

\* collect_class_func, lines 101-123: None for no functions, else the dict;
\* a call left by an exception returns nothing, and the entries made for the
\* earlier functions are lost with func_text
collect_class_func(class_name, funcs) ==
    IF Len(funcs) = 0 THEN [raised |-> "none", none |-> TRUE, items |-> <<>>]
    ELSE LET loop == FuncLoop(class_name, funcs, <<>>)
         IN  IF loop.raised # "none"
             THEN [raised |-> loop.raised, none |-> TRUE, items |-> <<>>]
             ELSE [raised |-> "none", none |-> FALSE, items |-> loop.func_text]

-----------------------------------------------------------------------------
(* The parse of the text of a function fragment (parser.py parse, lines      *)
(* 17-31, hands the text to the C++ grammar of tree_sitter_cpp, which is not *)
(* part of the repository).  The text is read by the declarator grammar of a *)
(* C++ function definition: <type> <declarator> <body>, the declarator being *)
(* any number of "*" and "&", then an identifier that may be qualified by    *)
(* <scope>:: any number of times, then the parameter list.  A text that is   *)
(* not of this form has no function declarator.                              *)

IsSpace(c) == c \in {" ", "\n", "\t"}

RECURSIVE LStrip(_)
LStrip(str) ==
    IF Len(str) > 0 /\ IsSpace(Head(str)) THEN LStrip(Tail(str)) ELSE str

\* the position of the first character of str that is in cs, or 0
RECURSIVE FirstOf(_, _, _)
FirstOf(str, cs, i) ==
    IF i > Len(str) THEN 0
    ELSE IF SubSeq(str, i, i) \in cs THEN i
    ELSE FirstOf(str, cs, i + 1)

\* the function declarator of the parsed definition: whether there is one,
\* its (qualified) identifier, the name field of that identifier (what
\* follows the last "::") and its parameter list
ParseFunction(text) ==
    LET \* the "*" and "&" a declarator starts with are taken off
        RECURSIVE StripPtr(_)
        StripPtr(str) ==
            IF Len(str) > 0 /\ SubSeq(str, 1, 1) \in {"*", "&"}
            THEN StripPtr(LStrip(SubSeq(str, 2, Len(str))))
            ELSE str
        \* the pieces of id between its "::" (a single ":" gives an empty piece)
        RECURSIVE ScopeParts(_)
        ScopeParts(id) ==
            LET k == FirstOf(id, {":"}, 1)
            IN  IF k = 0 THEN <<id>>
                ELSE IF k + 1 > Len(id) \/ SubSeq(id, k + 1, k + 1) # ":" THEN <<"">>
                ELSE <<SubSeq(id, 1, k - 1)>> \o ScopeParts(SubSeq(id, k + 2, Len(id)))
        \* an identifier: not empty, and none of the characters that end one
        IsIdentifier(str) ==
            /\ Len(str) > 0
            /\ FirstOf(str, {"*", "&", ":", " ", "\n", "\t", "(", ")", "{", "}", ";", ","}, 1) = 0
        t1 == LStrip(text)
        sp == FirstOf(t1, {" ", "\n", "\t"}, 1)
        rest == StripPtr(LStrip(SubSeq(t1, sp + 1, Len(t1))))
        open == FirstOf(rest, {"("}, 1)
        close == FirstOf(rest, {")"}, 1)
        qid == SubSeq(rest, 1, open - 1)
        parts == ScopeParts(qid)
    IN  IF sp > 1 /\ open > 1 /\ close > open /\ \A k \in 1..Len(parts) : IsIdentifier(parts[k])
        THEN [ok |-> TRUE, type |-> SubSeq(t1, 1, sp - 1), declarator |-> qid,
              name |-> parts[Len(parts)], parameters |-> SubSeq(rest, open, close)]
        ELSE [ok |-> FALSE, type |-> "", declarator |-> "", name |-> "", parameters |-> ""]

-----
(* The sliced unit: one top-level type, optionally inside namespace NS, and  *)
(* types nested in it.  Type k is declared after type k - 1.                 *)

TypeNames == <<"Foo", "Bar", "Baz", "Qux", "Quux">>

\* inline member functions: two overloads of bar, and two whose declarators
\* are a pointer_declarator and a reference_declarator
bar0 == [type |-> "void", ptr |-> "", name |-> "bar", params |-> "()", body |-> "{ }"]
bar1 == [type |-> "int", ptr |-> "", name |-> "bar", params |-> "(int c)", body |-> "{ return c; }"]
ptr0 == [type |-> "int", ptr |-> "*", name |-> "at", params |-> "(int c)", body |-> "{ return a; }"]
ref0 == [type |-> "int", ptr |-> "&", name |-> "get", params |-> "()", body |-> "{ return c; }"]

FieldChoices == {<<>>, <<"int x;", "int y;">>}
FuncChoices == {<<>>, <<bar0, bar1, ptr0>>, <<bar0, ref0>>}

\* the qualified name the Namer gave type k
RECURSIVE TypeQName(_, _, _)
TypeQName(ns, par, k) ==
    IF k = 1 THEN (IF ns THEN <<"NS">> ELSE <<>>) \o <<TypeNames[1]>>
    ELSE TypeQName(ns, par, par[k]) \o <<TypeNames[k]>>

MkProg(ns, n, par, fld, fn) ==
    [ns |-> ns,
     types |-> [k \in 1..n |->
        [name |-> TypeQName(ns, par, k),
         type |-> IF k % 2 = 0 THEN "struct_specifier" ELSE "class_specifier",
         parent |-> IF k = 1 THEN 0 ELSE par[k],
         fields |-> fld[k],
         funcs |-> fn[k]]]]

NoProg == [ns |-> FALSE, types |-> <<>>]

\* the nested type definitions of type t, in declaration order
NestedOf(p, t) == SelectSeq([k \in 1..Len(p.types) |-> k], LAMBDA k : p.types[k].parent = t)

-----------------------------------------------------------------------------
(* Slicer, slicer.py lines 13-80 *)

\* the scope of the graph's root, which parse names None (parser.py line 43)
GlobalScope == [root |-> [type |-> "translation_unit", name |-> NoName], nodes |-> <<>>, parent |-> 0]

NoData == [text |-> <<>>, indent |-> 0]
NoFunc == [none |-> TRUE, items |-> <<>>]
NoStore == [present |-> FALSE, versions |-> <<>>]

\* Store() and Store.add_version: a new current version is appended
add_version(store, payload) ==
    [present |-> TRUE, versions |-> Append(store.versions, payload)]

\* truth value of a Node: the pydantic model defines no __bool__ or __len__
NodeTruthy(data) == TRUE

\* truth value of collect_class_func's result: None and {} are false
DictTruthy(func) == ~func.none /\ Len(func.items) > 0

NewFrame(t) ==
    [node |-> t, stage |-> "classify", nested_class |-> <<>>, data_fields |-> <<>>,
     func_definitions |-> <<>>, i |-> 1, data |-> NoData, func |-> NoFunc]

Top == frames[Len(frames)]

SetTop(f) == [frames EXCEPT ![Len(frames)] = f]

\* slice_graph, lines 78-80: a new Slicer with its three lists empty (lines
\* 15-19) visits the graph; the scope-aware walk reaches the top-level type t:
\* one Scope per enclosing construct has been entered, the innermost being
\* that of t itself
EnterType(t) ==
    /\ frames = <<>>
    /\ slice_raised = "none"
    /\ passes < MaxPasses
    /\ t \in 1..Len(prog.types)
    /\ prog.types[t].parent = 0
    /\ scopes' = <<GlobalScope>>
          \o (IF prog.ns
              THEN <<[root |-> [type |-> "namespace_definition", name |-> <<"NS">>],
                      nodes |-> <<>>, parent |-> 1]>>
              ELSE <<>>)
          \o <<[root |-> [type |-> prog.types[t].type, name |-> prog.types[t].name],
                nodes |-> <<>>, parent |-> IF prog.ns THEN 2 ELSE 1]>>
    /\ cur_scope' = IF prog.ns THEN 3 ELSE 2
    /\ frames' = <<NewFrame(t)>>
    /\ passes' = passes + 1
    /\ written' = {}
    /\ data_fields' = <<>>
    /\ func_definitions' = <<>>
    /\ nested_classes' = <<>>
    /\ UNCHANGED <<prog, slice_store, slice_raised>>
    /\ UNCHANGED <<graphVars, bound, lookup, overloadVars, pipelineVars>>

\* impl_class_specifier lines 48-57: reset the three lists, visit the children
\* (each data field, inline function and nested type is appended to its list),
\* then take the copies
Classify ==
    /\ frames # <<>>
    /\ Top.stage = "classify"
    /\ LET ty == prog.types[Top.node]
           nest == NestedOf(prog, Top.node)
       IN  /\ data_fields' = ty.fields
           /\ func_definitions' = ty.funcs
           /\ nested_classes' = nest
           /\ frames' = SetTop([Top EXCEPT !.stage = "nest",
                                            !.nested_class = nest,
                                            !.data_fields = ty.fields,
                                            !.func_definitions = ty.funcs])
    /\ UNCHANGED <<prog, scopes, cur_scope, slice_store, passes, written, slice_raised>>
    /\ UNCHANGED <<graphVars, bound, lookup, overloadVars, pipelineVars>>

\* line 58: the loop over the copied nested types is over
\* (NestedSkipped: the fragments are built without the loop being run)
NestedSkipped(f) == TRUE

NestedDone(f) == f.i > Len(f.nested_class)

\* lines 58-59: impl_class_specifier is called on the next nested type
CallNested ==
    /\ frames # <<>>
    /\ Top.stage = "nest"
    /\ ~NestedDone(Top)
    /\ frames' = Append(SetTop([Top EXCEPT !.i = @ + 1]), NewFrame(Top.nested_class[Top.i]))
    /\ UNCHANGED <<prog, scopes, cur_scope, data_fields, func_definitions, nested_classes,
                   slice_store, passes, written, slice_raised>>
    /\ UNCHANGED <<graphVars, bound, lookup, overloadVars, pipelineVars>>

\* lines 61-62: the data fragment and the function fragments are built from
\* the Slicer's current scope
BuildFragments ==
    /\ frames # <<>>
    /\ Top.stage = "nest"
    /\ NestedDone(Top)
    /\ \E func \in {collect_class_func(scopes[cur_scope].root.name, Top.func_definitions)} :
          /\ func.raised = "none"
          /\ frames' = SetTop([Top EXCEPT
                  !.stage = "store",
                  !.data = collect_class_data(scopes, cur_scope, Top.data_fields),
                  !.func = [none |-> func.none, items |-> func.items]])
    /\ UNCHANGED <<prog, scopes, cur_scope, data_fields, func_definitions, nested_classes,
                   slice_store, passes, written, slice_raised>>
    /\ UNCHANGED <<graphVars, bound, lookup, overloadVars, pipelineVars>>

\* line 62 raises: the exception is caught nowhere, so it leaves this call of
\* impl_class_specifier, every enclosing one, the walk and slice_graph. The
\* data fragment of line 61 is dropped, lines 70-75 are not reached for any of
\* the types whose call was active, and the Slicer keeps its lists
BuildRaise ==
    /\ frames # <<>>
    /\ Top.stage = "nest"
    /\ NestedDone(Top)
    /\ \E func \in {collect_class_func(scopes[cur_scope].root.name, Top.func_definitions)} :
          /\ func.raised # "none"
          /\ slice_raised' = func.raised
    /\ frames' = <<>>
    /\ UNCHANGED <<prog, scopes, cur_scope, data_fields, func_definitions, nested_classes,
                   slice_store, passes, written>>
    /\ UNCHANGED <<graphVars, bound, lookup, overloadVars, pipelineVars>>

\* lines 70-75: the store is made if missing, and the snapshot is added when
\* data or func is true; the call returns
\* (WriteSnapshotOnTop: the data fragment written after the text of the
\* version the store already holds)
WriteSnapshotOnTop ==
    /\ frames # <<>>
    /\ Top.stage = "store"
    /\ LET t == Top.node
           st == IF slice_store[t].present THEN slice_store[t]
                 ELSE [present |-> TRUE, versions |-> <<>>]
           add == NodeTruthy(Top.data) \/ DictTruthy(Top.func)
           before == IF st.versions = <<>> THEN <<>> ELSE LastOf(st.versions).data.text
           snap == [data |-> [Top.data EXCEPT !.text = before \o @], func |-> Top.func,
                    nest_classes |-> nested_classes]
       IN  /\ slice_store' = [slice_store EXCEPT ![t] = IF add THEN add_version(st, snap) ELSE st]
           /\ written' = IF add THEN written \cup {t} ELSE written
    /\ frames' = Pop(frames)
    /\ UNCHANGED <<prog, scopes, cur_scope, data_fields, func_definitions, nested_classes, passes,
                   slice_raised>>
    /\ UNCHANGED <<graphVars, bound, lookup, overloadVars, pipelineVars>>

WriteSnapshot ==
    /\ frames # <<>>
    /\ Top.stage = "store"
    /\ LET t == Top.node
           st == IF slice_store[t].present THEN slice_store[t]
                 ELSE [present |-> TRUE, versions |-> <<>>]
           add == NodeTruthy(Top.data) \/ DictTruthy(Top.func)
           snap == [data |-> Top.data, func |-> Top.func, nest_classes |-> nested_classes]
       IN  /\ slice_store' = [slice_store EXCEPT ![t] = IF add THEN add_version(st, snap) ELSE st]
           /\ written' = IF add THEN written \cup {t} ELSE written
    /\ frames' = Pop(frames)
    /\ UNCHANGED <<prog, scopes, cur_scope, data_fields, func_definitions, nested_classes, passes,
                   slice_raised>>
    /\ UNCHANGED <<graphVars, bound, lookup, overloadVars, pipelineVars>>

InitSlicerIdle ==
    /\ prog = NoProg
    /\ frames = <<>>
    /\ data_fields = <<>>
    /\ func_definitions = <<>>
    /\ nested_classes = <<>>
    /\ cur_scope = 0
    /\ slice_store = <<>>
    /\ passes = 0
    /\ written = {}
    /\ slice_raised = "none"

\* Slicer.__init__, lines 15-19, on a unit drawn from the bounded family
InitSlicer ==
    /\ \E ns \in BOOLEAN, n \in 1..MaxTypes :
          \E par \in [1..n -> 0..(n - 1)], fld \in [1..n -> FieldChoices], fn \in [1..n -> FuncChoices] :
             /\ par[1] = 0
             /\ \A k \in 2..n : par[k] \in 1..(k - 1)
             /\ prog = MkProg(ns, n, par, fld, fn)
    /\ frames = <<>>
    /\ data_fields = <<>>
    /\ func_definitions = <<>>
    /\ nested_classes = <<>>
    /\ cur_scope = 1
    /\ slice_store = [t \in 1..Len(prog.types) |-> NoStore]
    /\ passes = 0
    /\ written = {}
    /\ slice_raised = "none"

NextSlicer ==
    \/ \E t \in 1..MaxTypes : EnterType(t)
    \/ Classify
    \/ CallNested
    \/ BuildFragments
    \/ BuildRaise
    \/ WriteSnapshot

-----------------------------------------------------------------------------
(* collect_class_func applied to long overload lists *)

OvClass == <<"NS", "Foo">>

NoCall == [returned |-> FALSE, raised |-> "none", func |-> NoFunc]

\* the i-th overload of bar, and the other members that may follow the overloads
Overload(i) == [type |-> "int", ptr |-> "", name |-> "bar", params |-> "(int a" \o ToString(i) \o ")", body |-> "{ }"]
baz0 == [type |-> "void", ptr |-> "", name |-> "baz", params |-> "()", body |-> "{ }"]
OvTails == {<<>>, <<bar0, baz0>>, <<baz0, ref0>>}

\* lines 106-122: the loop handles the next function of the list; a turn
\* that raises ends the call, which returns nothing
OvLoopStep ==
    /\ ~ov_call.returned
    /\ ov_call.raised = "none"
    /\ ov_i <= Len(ov_funcs)
    /\ \E turn \in {FuncStep(OvClass, ov_funcs[ov_i], ov_text)} :
          IF turn.raised = "none"
          THEN /\ ov_text' = turn.func_text
               /\ ov_i' = ov_i + 1
               /\ UNCHANGED ov_call
          ELSE /\ ov_call' = [returned |-> FALSE, raised |-> turn.raised, func |-> NoFunc]
               /\ UNCHANGED <<ov_text, ov_i>>
    /\ UNCHANGED <<ov_funcs, graphVars, scopeVars, sliceVars, pipelineVars>>

\* lines 102-103 and 123: the call returns None for no functions, else the
\* dict; the function has no raise statement of its own, so a call whose
\* loop ran to its end raises nothing
OvReturn ==
    /\ ~ov_call.returned
    /\ ov_call.raised = "none"
    /\ ov_i > Len(ov_funcs)
    /\ ov_call' = [returned |-> TRUE, raised |-> "none",
                   func |-> IF Len(ov_funcs) = 0 THEN NoFunc
                            ELSE [none |-> FALSE, items |-> ov_text]]
    /\ UNCHANGED <<ov_funcs, ov_i, ov_text, graphVars, scopeVars, sliceVars, pipelineVars>>

InitOverloadIdle ==
    /\ ov_funcs = <<>>
    /\ ov_i = 1
    /\ ov_text = <<>>
    /\ ov_call = NoCall

InitOverload ==
    /\ \E k \in 0..MaxOverloads, tail \in OvTails :
          ov_funcs = [i \in 1..k |-> Overload(i)] \o tail
    /\ ov_i = 1
    /\ ov_text = <<>>
    /\ ov_call = NoCall

NextOverload ==
    \/ OvLoopStep
    \/ OvReturn

-----------------------------------------------------------------------------
(* parser.py _tree_to_graph, lines 34-57: the walk that builds a Graph from  *)
(* a tree-sitter tree.  Node objects live in the per-graph list nodes, in    *)
(* creation order; an object is referred to by its position in that list and *)
(* carries the tree-sitter node it was made for (Node.ts_node).              *)

Passes == {1, 2}

\* a tree-sitter tree as the list of its nodes' parents: node 1 is the root,
\* the children of a node are ordered by their index
TsTreesOf(size) ==
    UNION {{t \in [1..n -> 0..(n - 1)] : t[1] = 0 /\ \A k \in 2..n : t[k] \in 1..(k - 1)}
           : n \in 1..size}

TsTrees == TsTreesOf(MaxTsNodes)

\* TsNode.children
TsChildren(tree, n) == SelectSeq([k \in 1..Len(tree) |-> k], LAMBDA k : tree[k] = n)

\* the identifier node k of a tree declares
TsIdent(k) == IF k % 2 = 0 THEN <<"g">> ELSE <<"h">>

\* the state of one _tree_to_graph call before line 35; id_map gives, for a
\* key, the Node object stored under it; pc, tmp and made are the position
\* inside create_node and its values in hand, for a call made on a thread
NoGraph == [phase |-> "new", nodes |-> <<>>, id_map |-> <<>>, node_map |-> <<>>, root |-> 0,
            stack |-> <<>>, cur |-> <<0, 0>>, idx |-> 0,
            pc |-> "idle", tmp |-> 0, made |-> 0, error |-> "none"]

\* g.id_map as create_node sees it: the Node stored under each key
NodesByKey(g) == [k \in DOMAIN g.id_map |-> g.nodes[g.id_map[k]].node]

\* g.id_map[key] = the object o
StoreUnder(imap, key, o) == [k \in (DOMAIN imap) \cup {key} |-> IF k = key THEN o ELSE imap[k]]

\* line 53: ra_node.children.append(child_ra_node)
\* (AppendChildTwice: the child appended by create_node as well as by the walk)
AppendChildTwice(nodes, ra, o) == [nodes EXCEPT ![ra].children = @ \o <<o, o>>]

AppendChild(nodes, ra, o) == [nodes EXCEPT ![ra].children = Append(@, o)]

\* the Node objects the graph links: the root and the listed children
Linked(g, o) ==
    \/ o = g.root
    \/ \E q \in 1..Len(g.nodes) : \E i \in 1..Len(g.nodes[q].children) : g.nodes[q].children[i] = o

\* Namer: the qualified name of a Node, the root keeping its file name
RECURSIVE NamerName(_, _)
NamerName(nodes, o) ==
    LET par == nodes[o].node.parent
    IN  IF par = NoNode
        THEN nodes[o].node.name
        ELSE QualifiedName(IF nodes[par].node.parent = NoNode THEN <<>> ELSE NamerName(nodes, par),
                           TsIdent(nodes[o].ts_node), "decl", <<>>)

\* Namer: node_map after the first o objects were named
RECURSIVE NamerIndex(_, _)
NamerIndex(g, o) ==
    IF o = 0 THEN <<>>
    ELSE LET rest == NamerIndex(g, o - 1)
         IN  IF g.nodes[o].node.parent = NoNode \/ ~Linked(g, o)
             THEN rest
             ELSE DictSet(rest, NamerName(g.nodes, o), g.nodes[o].node.id)

\* line 56: assign_name_graph names the linked nodes and fills node_map
assign_name_graph(g) ==
    [g EXCEPT !.nodes = [o \in 1..Len(g.nodes) |->
                            IF Linked(g, o)
                            THEN [g.nodes[o] EXCEPT !.node.name = NamerName(g.nodes, o)]
                            ELSE g.nodes[o]],
              !.node_map = NamerIndex(g, Len(g.nodes))]

\* lines 48 and 56-57: the stack is empty, the graph is named and returned
Finish(g) ==
    CHOOSE named \in {assign_name_graph(walked) :
                         walked \in {[g EXCEPT !.cur = <<0, 0>>, !.idx = 0,
                                                !.phase = "done", !.pc = "idle"]}} : TRUE

\* lines 48-51: run the while and for loops up to the next child to create;
\* the call is over when the stack is empty and the children are used up
\* (SettleOnce: the while loop taken as an if, the stack popped at most once)
SettleOnce(tree, g) ==
    IF g.cur[1] # 0 /\ g.idx <= Len(TsChildren(tree, g.cur[1]))
    THEN g
    ELSE IF g.stack = <<>>
         THEN Finish(g)
         ELSE LET h == [g EXCEPT !.cur = LastOf(g.stack), !.stack = Pop(g.stack), !.idx = 1]
              IN  IF h.idx <= Len(TsChildren(tree, h.cur[1]))
                  THEN h
                  ELSE Finish(h)

RECURSIVE Settle(_, _)
Settle(tree, g) ==
    IF g.cur[1] # 0 /\ g.idx <= Len(TsChildren(tree, g.cur[1]))
    THEN g
    ELSE IF g.stack = <<>>
         THEN Finish(g)
         ELSE Settle(tree, [g EXCEPT !.cur = LastOf(g.stack), !.stack = Pop(g.stack), !.idx = 1])

\* lines 35-46, one caller: a fresh Graph, its root node made with
\* restart=True under a placeholder parent and named file_name (None), and
\* the stack holding the root pair
ParseStart(p) ==
    /\ sched = "serial"
    /\ pg[p].phase = "new"
    /\ \A q \in Passes \ {p} : pg[q].phase # "walk"
    /\ LET r == create_node(gid, <<>>, NoNode, TRUE)
           g == [NoGraph EXCEPT
                   !.phase = "walk",
                   !.nodes = <<[node |-> r[2][r[1]], ts_node |-> 1, children |-> <<>>]>>,
                   !.id_map = StoreUnder(<<>>, r[1], 1),
                   !.root = 1,
                   !.stack = <<<<1, 1>>>>]
       IN  /\ gid' = r[1]
           /\ \E rooted \in {g} : pg' = [pg EXCEPT ![p] = Settle(ts_trees[p], rooted)]
    /\ UNCHANGED <<sched, ts_trees>>
    /\ UNCHANGED <<id_map, node_map, gphase, cursor, query, resolved>>
    /\ UNCHANGED <<scopeVars, sliceVars, overloadVars, storeVars, includeVars, compileVars, apiVars>>

\* lines 52-54, one caller: one child node is created, appended to its
\* parent's children and pushed on the stack
ParseChild(p) ==
    /\ sched = "serial"
    /\ pg[p].phase = "walk"
    /\ \E r \in {create_node(gid, NodesByKey(pg[p]), pg[p].cur[2], FALSE)} :
          LET g == pg[p]
              child == TsChildren(ts_trees[p], g.cur[1])[g.idx]
              o == Len(g.nodes) + 1
              made == Append(g.nodes, [node |-> r[2][r[1]], ts_node |-> child, children |-> <<>>])
              h == [g EXCEPT !.nodes = AppendChild(made, g.cur[2], o),
                             !.id_map = StoreUnder(@, r[1], o),
                             !.stack = Append(@, <<child, o>>),
                             !.idx = @ + 1]
          IN  /\ gid' = r[1]
              /\ \E grown \in {h} : pg' = [pg EXCEPT ![p] = Settle(ts_trees[p], grown)]
    /\ UNCHANGED <<sched, ts_trees>>
    /\ UNCHANGED <<id_map, node_map, gphase, cursor, query, resolved>>
    /\ UNCHANGED <<scopeVars, sliceVars, overloadVars, storeVars, includeVars, compileVars, apiVars>>

-----------------------------------------------------------------------------
(* _tree_to_graph called on threads of one interpreter: create_node, ir.py   *)
(* lines 179-186, is taken one access of the global _id at a time, since     *)
(* another thread may run between any two of them.                           *)

\* the syntax node and the parent of the node the walk is creating
Pending(p) ==
    IF pg[p].root = 0
    THEN [ts_node |-> 1, parent |-> NoNode]
    ELSE [ts_node |-> TsChildren(ts_trees[p], pg[p].cur[1])[pg[p].idx], parent |-> pg[p].cur[2]]

\* parser.py lines 35-41 and ir.py lines 181-182: a fresh Graph; the call
\* for the root sets _id to 0
ThreadStart(p) ==
    /\ sched = "threads"
    /\ pg[p].phase = "new"
    /\ gid' = 0
    /\ pg' = [pg EXCEPT ![p] = [NoGraph EXCEPT !.phase = "walk", !.pc = "read"]]
    /\ UNCHANGED <<sched, ts_trees>>
    /\ UNCHANGED <<id_map, node_map, gphase, cursor, query, resolved>>
    /\ UNCHANGED <<scopeVars, sliceVars, overloadVars, storeVars, includeVars, compileVars, apiVars>>

\* ir.py line 183, _id += 1: the global is read
ThreadRead(p) ==
    /\ pg[p].phase = "walk" /\ pg[p].pc = "read"
    /\ pg' = [pg EXCEPT ![p].tmp = gid, ![p].pc = "write"]
    /\ UNCHANGED <<gid, sched, ts_trees>>
    /\ UNCHANGED <<id_map, node_map, gphase, cursor, query, resolved>>
    /\ UNCHANGED <<scopeVars, sliceVars, overloadVars, storeVars, includeVars, compileVars, apiVars>>

\* ir.py line 183, _id += 1: the sum is written back
ThreadWrite(p) ==
    /\ pg[p].phase = "walk" /\ pg[p].pc = "write"
    /\ gid' = pg[p].tmp + 1
    /\ pg' = [pg EXCEPT ![p].pc = "make"]
    /\ UNCHANGED <<sched, ts_trees>>
    /\ UNCHANGED <<id_map, node_map, gphase, cursor, query, resolved>>
    /\ UNCHANGED <<scopeVars, sliceVars, overloadVars, storeVars, includeVars, compileVars, apiVars>>

\* ir.py line 185, right-hand side: Node(ts_node, parent, id=_id) with the
\* value _id has now
ThreadMake(p) ==
    /\ pg[p].phase = "walk" /\ pg[p].pc = "make"
    /\ LET node == [id |-> gid, parent |-> Pending(p).parent, name |-> NoName]
           obj == [node |-> node, ts_node |-> Pending(p).ts_node, children |-> <<>>]
       IN  pg' = [pg EXCEPT ![p].nodes = Append(@, obj),
                            ![p].made = Len(pg[p].nodes) + 1,
                            ![p].pc = "store"]
    /\ UNCHANGED <<gid, sched, ts_trees>>
    /\ UNCHANGED <<id_map, node_map, gphase, cursor, query, resolved>>
    /\ UNCHANGED <<scopeVars, sliceVars, overloadVars, storeVars, includeVars, compileVars, apiVars>>

\* ir.py line 185, the store: g.id_map[_id] = <the new Node>, _id read again
ThreadStore(p) ==
    /\ pg[p].phase = "walk" /\ pg[p].pc = "store"
    /\ pg' = [pg EXCEPT ![p].id_map = StoreUnder(@, gid, pg[p].made), ![p].pc = "return"]
    /\ UNCHANGED <<gid, sched, ts_trees>>
    /\ UNCHANGED <<id_map, node_map, gphase, cursor, query, resolved>>
    /\ UNCHANGED <<scopeVars, sliceVars, overloadVars, storeVars, includeVars, compileVars, apiVars>>

\* ir.py line 186, return g.id_map[_id] with _id read a third time: KeyError
\* when the graph holds nothing under that key; otherwise the Node found
\* there is what parser.py lines 42-46 or 53-54 go on with
ThreadReturn(p) ==
    /\ pg[p].phase = "walk" /\ pg[p].pc = "return"
    /\ LET g == pg[p]
       IN  IF gid \notin DOMAIN g.id_map
           THEN pg' = [pg EXCEPT ![p].phase = "raised", ![p].error = "KeyError", ![p].pc = "idle"]
           ELSE LET o == g.id_map[gid]
                    h == IF g.root = 0
                         THEN [g EXCEPT !.root = o, !.stack = <<<<1, o>>>>, !.pc = "read"]
                         ELSE [g EXCEPT !.nodes = AppendChild(@, g.cur[2], o),
                                        !.stack = Append(@, <<Pending(p).ts_node, o>>),
                                        !.idx = @ + 1,
                                        !.pc = "read"]
                IN  \E grown \in {h} : pg' = [pg EXCEPT ![p] = Settle(ts_trees[p], grown)]
    /\ UNCHANGED <<gid, sched, ts_trees>>
    /\ UNCHANGED <<id_map, node_map, gphase, cursor, query, resolved>>
    /\ UNCHANGED <<scopeVars, sliceVars, overloadVars, storeVars, includeVars, compileVars, apiVars>>

InitParseIdle ==
    /\ sched = "serial"
    /\ ts_trees = [p \in Passes |-> <<>>]
    /\ pg = [p \in Passes |-> NoGraph]

\* two parse calls made by one caller, one after the other
InitParseSerial ==
    /\ sched = "serial"
    /\ ts_trees \in [Passes -> TsTrees]
    /\ pg = [p \in Passes |-> NoGraph]

\* two parse calls made by two threads of one interpreter
InitParseThreads ==
    /\ sched = "threads"
    /\ ts_trees \in [Passes -> TsTreesOf(MaxThreadNodes)]
    /\ pg = [p \in Passes |-> NoGraph]

NextParse ==
    \/ \E p \in Passes : ParseStart(p)
    \/ \E p \in Passes : ParseChild(p)

NextThreads ==
    \/ \E p \in Passes : ThreadStart(p)
    \/ \E p \in Passes : ThreadRead(p)
    \/ \E p \in Passes : ThreadWrite(p)
    \/ \E p \in Passes : ThreadMake(p)
    \/ \E p \in Passes : ThreadStore(p)
    \/ \E p \in Passes : ThreadReturn(p)

-----------------------------------------------------------------------------
(* The versioned store, Store: add_version, get_current_version and          *)
(* version_count as the specification gives them.                            *)

Payloads == {"p", "q", "r"}
NoPayload == "<None>"
NoGet == [called |-> FALSE, error |-> "none", value |-> NoPayload]

\* Store(): a store that has never been written
NewStore == [present |-> TRUE, versions |-> <<>>]

\* Store.version_count
version_count(store) == Len(store.versions)

\* Store.get_current_version: the latest payload, NotFound on a store that
\* has never been written
\* (get_current_versionFirst: the oldest payload instead of the latest)
get_current_versionFirst(store) ==
    IF version_count(store) = 0
    THEN [called |-> TRUE, error |-> "NotFound", value |-> NoPayload]
    ELSE [called |-> TRUE, error |-> "none", value |-> store.versions[1]]

get_current_version(store) ==
    IF version_count(store) = 0
    THEN [called |-> TRUE, error |-> "NotFound", value |-> NoPayload]
    ELSE [called |-> TRUE, error |-> "none", value |-> LastOf(store.versions)]

AddVersion(payload) ==
    /\ vstore.present
    /\ version_count(vstore) < MaxVersions
    /\ vstore' = add_version(vstore, payload)
    /\ vlast' = payload
    /\ vget' = NoGet
    /\ UNCHANGED <<graphVars, scopeVars, sliceVars, overloadVars, parseVars, includeVars, compileVars, apiVars>>

GetCurrentVersion ==
    /\ vstore.present
    /\ vget' = get_current_version(vstore)
    /\ UNCHANGED <<vstore, vlast>>
    /\ UNCHANGED <<graphVars, scopeVars, sliceVars, overloadVars, parseVars, includeVars, compileVars, apiVars>>

InitStoreIdle ==
    /\ vstore = NoStore
    /\ vlast = NoPayload
    /\ vget = NoGet

InitStore ==
    /\ vstore = NewStore
    /\ vlast = NoPayload
    /\ vget = NoGet

NextStore ==
    \/ \E payload \in Payloads : AddVersion(payload)
    \/ GetCurrentVersion

-----------------------------------------------------------------------------
(* Includer, includer.py.  File names and paths are strings.  A source text  *)
(* is kept as the list of the paths of the files whose text it is made of,   *)
(* in order; the children of a root node are kept as a list of items:        *)
(* include directives, #ifdef blocks, other code.                            *)

\* None, as search_file returns it when its loop ends
NoFile == ""
Header(stem) == stem \o ".h"
Include(file) == [type |-> "preproc_include", file |-> file, body |-> <<>>]
Ifdef(body) == [type |-> "preproc_ifdef", file |-> NoFile, body |-> body]
Declaration == [type |-> "declaration", file |-> NoFile, body |-> <<>>]

\* the requester's top-level items, and the contents the two headers may have
ReqItems ==
    {Include("a.h"), Include("b.h"), Include("a.hpp"),
     Ifdef(<<>>), Ifdef(<<Include("a.h")>>), Declaration}
ReqSources == UNION {[1..n -> ReqItems] : n \in 0..MaxItems}
ContentsA == {<<Declaration>>, <<Include("b.h")>>, <<Ifdef(<<Include("b.h")>>)>>}
ContentsB == {<<Declaration>>, <<Include("a.h")>>, <<Include("b.h")>>}

\* os.path.join(root, filename) on POSIX
Join(root, filename) ==
    IF Len(filename) > 0 /\ SubSeq(filename, 1, 1) = "/" THEN filename
    ELSE IF root = "" \/ SubSeq(root, Len(root), Len(root)) = "/" THEN root \o filename
    ELSE root \o "/" \o filename

\* the directory include_graph is given
SearchDir == "inc"

\* what os.walk(directory) yields for the files put, top-down: the root, then
\* the sub-directories in listing order, each with the names of its files;
\* and the content open() finds at each path
DiskOf(put, order) ==
    LET FilesAt(root) == {f.name : f \in {g \in put : g.dir = root}}
        Entry(root) == [root |-> root, files |-> FilesAt(root)]
    IN  [walk |-> <<Entry(SearchDir)>> \o
                  [i \in 1..Len(order) |-> Entry(Join(SearchDir, order[i]))],
         at   |-> [p \in {Join(f.dir, f.name) : f \in put} |->
                      (CHOOSE f \in put : Join(f.dir, f.name) = p).items]]

\* the search trees: a.h may be in the root or in the sub-directory y, its
\* transformed twin a.rs in the root or in the sub-directory x, b.h and
\* a.rspp in the root.  A sub-directory is there when a file is put in it,
\* and a directory listing may give the sub-directories in any order.
Disks ==
    LET Put(dir, name, items) == [dir |-> dir, name |-> name, items |-> items]
        PutsA == {{}} \cup {{Put(SearchDir, "a.h", c)} : c \in ContentsA}
                      \cup {{Put(Join(SearchDir, "y"), "a.h", <<Declaration>>)}}
        PutsTwin == {{}, {Put(SearchDir, "a.rs", <<Declaration>>)},
                         {Put(Join(SearchDir, "x"), "a.rs", <<Declaration>>)}}
        PutsB == {{}} \cup {{Put(SearchDir, "b.h", c)} : c \in ContentsB}
        PutsOther == {{}, {Put(SearchDir, "a.rspp", <<Declaration>>)}}
        Orders(ds) == {o \in [1..Cardinality(ds) -> ds] :
                          \A i, j \in DOMAIN o : i # j => o[i] # o[j]}
    IN  UNION {{DiskOf(put, order) :
                   order \in Orders({d \in {"x", "y"} : \E f \in put : f.dir = Join(SearchDir, d)})} :
               put \in {pa \cup pt \cup pb \cup po :
                           pa \in PutsA, pt \in PutsTwin, pb \in PutsB, po \in PutsOther}}

\* str.replace(old, new): every occurrence of old, left to right
RECURSIVE ReplaceAll(_, _, _)
ReplaceAll(s, old, new) ==
    IF Len(s) < Len(old) THEN s
    ELSE IF SubSeq(s, 1, Len(old)) = old
         THEN new \o ReplaceAll(SubSeq(s, Len(old) + 1, Len(s)), old, new)
         ELSE SubSeq(s, 1, 1) \o ReplaceAll(SubSeq(s, 2, Len(s)), old, new)

\* line 12: filename.replace(".h", ".rs")
ReplaceExt(filename) == ReplaceAll(filename, ".h", ".rs")

\* search_file, lines 10-13: the first directory of the walk whose files hold
\* the name or its replacement gives the path returned; NoFile for None
search_file(dsk, filename) ==
    LET hits == {i \in 1..Len(dsk.walk) :
                    \/ filename \in dsk.walk[i].files
                    \/ ReplaceExt(filename) \in dsk.walk[i].files}
    IN  IF hits = {}
        THEN NoFile
        ELSE Join(dsk.walk[CHOOSE i \in hits : \A j \in hits : i <= j].root, filename)

\* parser.py parse_from_file and parse: a new Graph for a source text
NewGraph(name, text, items) ==
    [name |-> name, text |-> text, items |-> items, depend_store |-> NoStore]

\* line 57: new_src = inc_src + old_src
\* (MergedSourceAppended: the included text put after the requester's)
MergedSourceAppended(inc_src, old_src) == old_src \o inc_src

MergedSource(inc_src, old_src) == inc_src \o old_src

ITop == iframes[Len(iframes)]

\* the child the innermost visit call is at, line 27
CurItem == ITop.items[ITop.pos]

AtItem(type) ==
    /\ istatus.state = "running"
    /\ ITop.pos <= Len(ITop.items)
    /\ CurItem.type = type

StepOver == [iframes EXCEPT ![Len(iframes)].pos = @ + 1]

\* lines 27-29: a child whose type has no visit_ method is passed over
VisitOther ==
    /\ AtItem("declaration")
    /\ iframes' = StepOver
    /\ UNCHANGED <<disk, graphs, lists, includers, istatus, dep_written>>
    /\ UNCHANGED <<graphVars, scopeVars, sliceVars, overloadVars, parseVars, storeVars, compileVars, apiVars>>

\* lines 38-39: visit_preproc_ifdef calls visit on the block
VisitIfdef ==
    /\ AtItem("preproc_ifdef")
    /\ Len(iframes) < MaxDepth
    /\ iframes' = Append(StepOver, [inc |-> ITop.inc, items |-> CurItem.body, pos |-> 1, via |-> "ifdef"])
    /\ UNCHANGED <<disk, graphs, lists, includers, istatus, dep_written>>
    /\ UNCHANGED <<graphVars, scopeVars, sliceVars, overloadVars, parseVars, storeVars, compileVars, apiVars>>

\* lines 42-45: search_file gives None
IncludeMiss ==
    /\ AtItem("preproc_include")
    /\ search_file(disk, CurItem.file) = NoFile
    /\ iframes' = StepOver
    /\ UNCHANGED <<disk, graphs, lists, includers, istatus, dep_written>>
    /\ UNCHANGED <<graphVars, scopeVars, sliceVars, overloadVars, parseVars, storeVars, compileVars, apiVars>>

\* lines 42-47 and parser.py line 13: search_file gives a path at which there
\* is no file, open raises FileNotFoundError and the call is abandoned
IncludeRaise ==
    /\ AtItem("preproc_include")
    /\ search_file(disk, CurItem.file) # NoFile
    /\ search_file(disk, CurItem.file) \notin DOMAIN disk.at
    /\ istatus' = [state |-> "raised", error |-> "FileNotFoundError", result |-> 0]
    /\ UNCHANGED <<disk, graphs, lists, includers, iframes, dep_written>>
    /\ UNCHANGED <<graphVars, scopeVars, sliceVars, overloadVars, parseVars, storeVars, compileVars, apiVars>>

\* lines 42-49: the file is parsed into its own Graph, which is appended to
\* include_files, and include_graph is called on it with a new Includer
IncludeHit ==
    /\ AtItem("preproc_include")
    /\ search_file(disk, CurItem.file) \in DOMAIN disk.at
    /\ Len(iframes) < MaxDepth
    /\ LET path == search_file(disk, CurItem.file)
           g == Len(graphs) + 1
           l == Len(lists) + 1
           i == Len(includers) + 1
           mine == includers[ITop.inc].include_files
       IN  /\ graphs' = Append(graphs, NewGraph(path, <<path>>, disk.at[path]))
           /\ lists' = Append([lists EXCEPT ![mine] = Append(@, g)], <<>>)
           /\ includers' = Append(includers, [og |-> g, include_files |-> l])
           /\ iframes' = Append(StepOver, [inc |-> i, items |-> disk.at[path], pos |-> 1, via |-> "include"])
    /\ UNCHANGED <<disk, istatus, dep_written>>
    /\ UNCHANGED <<graphVars, scopeVars, sliceVars, overloadVars, parseVars, storeVars, compileVars, apiVars>>

\* lines 38-39 and 42-49 with nothing to end the recursion: a further visit
\* or include_graph call is due when the interpreter's call stack is used up
\* (MaxDepth calls deep); Python raises RecursionError, which nothing catches
IncludeOverflow ==
    /\ \/ AtItem("preproc_ifdef")
       \/ AtItem("preproc_include") /\ search_file(disk, CurItem.file) \in DOMAIN disk.at
    /\ Len(iframes) >= MaxDepth
    /\ istatus' = [state |-> "raised", error |-> "RecursionError", result |-> 0]
    /\ UNCHANGED <<disk, graphs, lists, includers, iframes, dep_written>>
    /\ UNCHANGED <<graphVars, scopeVars, sliceVars, overloadVars, parseVars, storeVars, compileVars, apiVars>>

\* lines 31-36: the loop is over; the root of the current graph is given a
\* dependency store if it has none and a version holding include_files is
\* added.  The call then returns into its caller: visit_preproc_ifdef (line
\* 39), visit_preproc_include (lines 49-69, where the caller's graph is
\* replaced by the parse of the merged text), or include_graph's caller.
VisitEnd ==
    /\ istatus.state = "running"
    /\ ITop.pos > Len(ITop.items)
    /\ LET me == includers[ITop.inc]
           payload == [include_files |-> me.include_files]
           stored == [graphs EXCEPT ![me.og].depend_store = add_version(@, payload)]
           caller == iframes[Len(iframes) - 1].inc
           ng == Len(graphs) + 1
           old == includers[caller].og
       IN  /\ dep_written' = Append(dep_written,
                  [graph |-> me.og, version |-> version_count(stored[me.og].depend_store),
                   listed |-> lists[me.include_files]])
           /\ iframes' = Pop(iframes)
           /\ IF ITop.via = "include"
              THEN /\ graphs' = Append(stored,
                          NewGraph(NoFile, MergedSource(stored[me.og].text, stored[old].text),
                                   MergedSource(stored[me.og].items, stored[old].items)))
                   /\ includers' = [includers EXCEPT ![caller].og = ng]
                   /\ UNCHANGED istatus
              ELSE /\ graphs' = stored
                   /\ UNCHANGED includers
                   /\ istatus' = IF ITop.via = "top"
                                 THEN [state |-> "done", error |-> "none", result |-> me.og]
                                 ELSE istatus
    /\ UNCHANGED <<disk, lists>>
    /\ UNCHANGED <<graphVars, scopeVars, sliceVars, overloadVars, parseVars, storeVars, compileVars, apiVars>>

InitIncludeIdle ==
    /\ disk = [walk |-> <<>>, at |-> <<>>]
    /\ graphs = <<>>
    /\ lists = <<>>
    /\ includers = <<>>
    /\ iframes = <<>>
    /\ istatus = [state |-> "idle", error |-> "none", result |-> 0]
    /\ dep_written = <<>>

\* include_graph(g, dir), lines 72-74 and 21-24, on the parsed requester m
InitInclude ==
    /\ disk \in Disks
    /\ \E req \in ReqSources :
          /\ graphs = <<NewGraph(Header("m"), <<Header("m")>>, req)>>
          /\ iframes = <<[inc |-> 1, items |-> req, pos |-> 1, via |-> "top"]>>
    /\ lists = <<<<>>>>
    /\ includers = <<[og |-> 1, include_files |-> 1]>>
    /\ istatus = [state |-> "running", error |-> "none", result |-> 0]
    /\ dep_written = <<>>

NextInclude ==
    \/ VisitOther
    \/ VisitIfdef
    \/ IncludeMiss
    \/ IncludeRaise
    \/ IncludeHit
    \/ IncludeOverflow
    \/ VisitEnd

-----------------------------------------------------------------------------
(* Compiler, compiler.py lines 50-120 *)

\* the children met under the root.  A child as the Compiler reads it: its
\* type, its children, and what its slice_store gives (whether one is set,
\* and the "data" and "func" entries of its current version: a node or None,
\* the keys of a dict or None).  Three kinds are compiled as they are, one
\* has no visit_ method, one is an #ifdef block, and the types are as
\* slice_store may describe them: never sliced, data and two functions, data
\* alone, functions alone, neither.  slice_store is a field compile_graph
\* reads as the caller left it.
Units ==
    LET NoSlice == [present |-> FALSE, data |-> FALSE, func |-> <<>>]
        Sliced(data, func) == [present |-> TRUE, data |-> data, func |-> func]
        Unit(type, body, slice) == [type |-> type, body |-> body, slice |-> slice]
        Leaf(type) == Unit(type, <<>>, NoSlice)
    IN  {Leaf("declaration"), Leaf("function_definition"), Leaf("enum_specifier"), Leaf("comment"),
         Unit("preproc_ifdef", <<Leaf("declaration")>>, NoSlice),
         Unit("class_specifier", <<>>, NoSlice),
         Unit("class_specifier", <<>>, Sliced(TRUE, <<"C.f.0", "C.f.1">>)),
         Unit("struct_specifier", <<>>, Sliced(TRUE, <<>>)),
         Unit("class_specifier", <<>>, Sliced(FALSE, <<"C.f.0">>)),
         Unit("class_specifier", <<>>, Sliced(FALSE, <<>>))}

UnitLists == UNION {[1..n -> Units] : n \in 0..MaxUnits}

\* line 106 failing: what stands in the list of calls for the AssertionError
AssertPart == "AssertionError"

\* lines 86-115: the nodes Compiler.visit hands to compile for one child, in
\* call order.  visit_preproc_ifdef visits the children of the block;
\* visit_struct_specifier is visit_class_specifier, which does nothing for a
\* node without slice_store, asserts that the current version has a data
\* node or function nodes, and compiles the data node, if any, then each
\* function node
RECURSIVE PartsOf(_)
PartsOf(node) ==
    LET RECURSIVE Each(_)
        Each(children) ==
            IF children = <<>> THEN <<>>
            ELSE PartsOf(Head(children)) \o Each(Tail(children))
    IN  CASE node.type \in {"declaration", "function_definition", "enum_specifier"} -> <<"node">>
          [] node.type = "preproc_ifdef" -> Each(node.body)
          [] node.type \in {"class_specifier", "struct_specifier"} ->
                IF ~node.slice.present THEN <<>>
                ELSE IF ~node.slice.data /\ node.slice.func = <<>> THEN <<AssertPart>>
                ELSE (IF node.slice.data THEN <<"data">> ELSE <<>>) \o node.slice.func
          [] OTHER -> <<>>

\* the compile calls of a whole visit, in the order the code makes them
RECURSIVE WorkFrom(_, _)
WorkFrom(units, i) ==
    IF i > Len(units)
    THEN <<>>
    ELSE [k \in 1..Len(PartsOf(units[i])) |-> [unit |-> i, part |-> PartsOf(units[i])[k]]]
         \o WorkFrom(units, i + 1)

Work == WorkFrom(cunits, 1)

\* line 52: range(3)
MaxAttempts == 3

\* what the oracle may hand back: a JSON object of the schema, or text that
\* json.loads or model_validate rejects
OracleOutputs == {"json", "garbage"}

\* a compile call is under way
Compiling ==
    /\ cstatus = "running"
    /\ cpos <= Len(Work)
    /\ Work[cpos].part # AssertPart

\* line 106: the current version has neither a data node nor function nodes;
\* AssertionError is raised and nothing catches it up to compile_graph
CompileAssert ==
    /\ cstatus = "running"
    /\ cpos <= Len(Work)
    /\ Work[cpos].part = AssertPart
    /\ cstatus' = "asserted"
    /\ UNCHANGED <<cunits, cpos, attempt, parsed, code_store, ctried>>
    /\ UNCHANGED <<graphVars, scopeVars, sliceVars, overloadVars, parseVars, storeVars, includeVars, apiVars>>

\* lines 52-68: one pass of the retry loop
\* (CompileAttemptNoBreak: the else branch does not leave the loop)
CompileAttemptNoBreak(out) ==
    /\ Compiling
    /\ attempt <= MaxAttempts
    /\ parsed' = (parsed \/ out = "json")
    /\ attempt' = attempt + 1
    /\ ctried' = [ctried EXCEPT ![cpos] = Append(@, out)]
    /\ UNCHANGED <<cunits, cpos, code_store, cstatus>>
    /\ UNCHANGED <<graphVars, scopeVars, sliceVars, overloadVars, parseVars, storeVars, includeVars, apiVars>>

CompileAttempt(out) ==
    /\ Compiling
    /\ ~parsed
    /\ attempt <= MaxAttempts
    /\ parsed' = (out = "json")
    /\ attempt' = IF out = "json" THEN attempt ELSE attempt + 1
    /\ ctried' = [ctried EXCEPT ![cpos] = Append(@, out)]
    /\ UNCHANGED <<cunits, cpos, code_store, cstatus>>
    /\ UNCHANGED <<graphVars, scopeVars, sliceVars, overloadVars, parseVars, storeVars, includeVars, apiVars>>

\* lines 69-73: after the loop the node gets a code store if it has none;
\* then parsed is read (line 71): unbound, UnboundLocalError is raised and
\* nothing catches it up to compile_graph; bound, the parsed target code is added as a version and
\* the visit goes on with the next node
CompileStore ==
    /\ Compiling
    /\ parsed \/ attempt > MaxAttempts
    /\ LET made == IF code_store[cpos].present THEN code_store[cpos] ELSE NewStore
       IN  IF parsed
           THEN /\ code_store' = [code_store EXCEPT ![cpos] =
                                      add_version(made, [parsed |-> "rust", src_node |-> cpos])]
                /\ cpos' = cpos + 1
                /\ cstatus' = IF cpos = Len(Work) THEN "done" ELSE "running"
           ELSE /\ code_store' = [code_store EXCEPT ![cpos] = made]
                /\ cpos' = cpos
                /\ cstatus' = "raised"
    /\ attempt' = 1
    /\ parsed' = FALSE
    /\ UNCHANGED <<cunits, ctried>>
    /\ UNCHANGED <<graphVars, scopeVars, sliceVars, overloadVars, parseVars, storeVars, includeVars, apiVars>>

InitCompileIdle ==
    /\ cunits = <<>>
    /\ cpos = 1
    /\ attempt = 1
    /\ parsed = FALSE
    /\ code_store = <<>>
    /\ cstatus = "idle"
    /\ ctried = <<>>

\* compile_graph, lines 118-120, on a graph none of whose nodes has a code store
InitCompile ==
    /\ cunits \in UnitLists
    /\ cpos = 1
    /\ attempt = 1
    /\ parsed = FALSE
    /\ code_store = [n \in 1..Len(Work) |-> NoStore]
    /\ cstatus = IF Len(Work) = 0 THEN "done" ELSE "running"
    /\ ctried = [n \in 1..Len(Work) |-> <<>>]

NextCompile ==
    \/ \E out \in OracleOutputs : CompileAttempt(out)
    \/ CompileStore
    \/ CompileAssert

-----------------------------------------------------------------------------
(* api.py run, lines 17-114 *)

None == "<None>"
NoError == [type |-> "none", message |-> ""]
NoArgs == [files |-> None, dirs |-> None, design_graph |-> FALSE, pagerank |-> FALSE,
           depends |-> FALSE, dependents |-> FALSE, query |-> None]

FileArgs == {None, <<>>, <<"src/main.rs", "src/lib.rs">>, <<"./src/main.rs", "a//b/./c.rs">>}
DirArgs == {None, <<"src/">>, <<"src/.", "">>, <<"//", "///srv/../x/">>}
QueryArgs == {None, "run_main"}
BackendResults == {None, "graph"}

\* str.split(sep) on a string, for a one-character separator
RECURSIVE SplitOn(_, _)
SplitOn(s, sep) ==
    LET at == {k \in 1..Len(s) : SubSeq(s, k, k) = sep}
    IN  IF at = {}
        THEN <<s>>
        ELSE LET k == CHOOSE i \in at : \A j \in at : i <= j
             IN  <<SubSeq(s, 1, k - 1)>> \o SplitOn(SubSeq(s, k + 1, Len(s)), sep)

\* "/".join(parts)
RECURSIVE JoinParts(_)
JoinParts(parts) ==
    IF parts = <<>> THEN ""
    ELSE IF Len(parts) = 1 THEN parts[1]
    ELSE parts[1] \o "/" \o JoinParts(Tail(parts))

\* str(Path(path)) on POSIX.  The root parsed off the path: exactly two
\* leading separators are kept, one or three and more give one.  Empty and
\* "." components are dropped, ".." is kept, the components are joined after
\* the root, and a path with neither root nor component is "."
PathStr(path) ==
    LET root == IF /\ Len(path) >= 2 /\ SubSeq(path, 1, 2) = "//"
                   /\ ~(Len(path) >= 3 /\ SubSeq(path, 3, 3) = "/")
                THEN "//"
                ELSE IF Len(path) >= 1 /\ SubSeq(path, 1, 1) = "/" THEN "/"
                ELSE ""
        parts == SelectSeq(SplitOn(path, "/"), LAMBDA c : c # "" /\ c # ".")
    IN  IF root = "" /\ parts = <<>>
        THEN "."
        ELSE root \o JoinParts(parts)

\* lines 9-10 and 13-14, 93-94
normalize(paths) == IF paths = None THEN None ELSE [i \in 1..Len(paths) |-> PathStr(paths[i])]

\* lines 84-91: the checks, in order; the first that fails gives the error
\* (validateNoExclusive: the check of depends against dependents missing)
validateNoExclusive(a) ==
    IF a.files = None /\ a.dirs = None
    THEN [type |-> "ValueError", message |-> "Either 'files' or 'dirs' must be provided"]
    ELSE IF a.files # None /\ a.dirs # None
    THEN [type |-> "ValueError", message |-> "Provide either 'files' or 'dirs', not both"]
    ELSE IF a.pagerank /\ ~a.design_graph
    THEN [type |-> "ValueError", message |-> "'pagerank' requires 'design_graph=True'"]
    ELSE NoError

validate(a) ==
    IF a.files = None /\ a.dirs = None
    THEN [type |-> "ValueError", message |-> "Either 'files' or 'dirs' must be provided"]
    ELSE IF a.files # None /\ a.dirs # None
    THEN [type |-> "ValueError", message |-> "Provide either 'files' or 'dirs', not both"]
    ELSE IF a.pagerank /\ ~a.design_graph
    THEN [type |-> "ValueError", message |-> "'pagerank' requires 'design_graph=True'"]
    ELSE IF a.depends /\ a.dependents
    THEN [type |-> "ValueError", message |-> "'depends' and 'dependents' are mutually exclusive"]
    ELSE NoError

\* lines 84-114 up to the call: the checks, then the arguments are normalised
\* and run_llmcc is invoked
Run ==
    /\ api_pc = "start"
    /\ LET e == validate(api_args)
       IN  IF e # NoError
           THEN /\ api_pc' = "raised"
                /\ api_error' = e
                /\ UNCHANGED <<api_calls, api_passed>>
           ELSE /\ api_pc' = "calling"
                /\ api_calls' = api_calls + 1
                /\ api_passed' = [api_args EXCEPT !.files = normalize(@), !.dirs = normalize(@)]
                /\ UNCHANGED api_error
    /\ UNCHANGED <<api_args, backend_out, api_result>>
    /\ UNCHANGED <<graphVars, scopeVars, sliceVars, overloadVars>>
    /\ UNCHANGED <<parseVars, storeVars, includeVars, compileVars>>

\* line 100: run_llmcc returns and run hands its value back
BackendReturn(out) ==
    /\ api_pc = "calling"
    /\ backend_out' = out
    /\ api_result' = out
    /\ api_pc' = "returned"
    /\ UNCHANGED <<api_args, api_error, api_calls, api_passed>>
    /\ UNCHANGED <<graphVars, scopeVars, sliceVars, overloadVars>>
    /\ UNCHANGED <<parseVars, storeVars, includeVars, compileVars>>

InitApiIdle ==
    /\ api_args = NoArgs
    /\ api_pc = "idle"
    /\ api_error = NoError
    /\ api_calls = 0
    /\ api_passed = NoArgs
    /\ backend_out = None
    /\ api_result = None

\* one call of run, with any combination of the arguments the checks read
InitApi ==
    /\ api_args \in [files : FileArgs, dirs : DirArgs, design_graph : BOOLEAN,
                     pagerank : BOOLEAN, depends : BOOLEAN, dependents : BOOLEAN,
                     query : QueryArgs]
    /\ api_pc = "start"
    /\ api_error = NoError
    /\ api_calls = 0
    /\ api_passed = NoArgs
    /\ backend_out = None
    /\ api_result = None

NextApi ==
    \/ Run
    \/ \E out \in BackendResults : BackendReturn(out)

-----------------------------------------------------------------------------
(* Specifications *)

InitPipelineIdle ==
    InitParseIdle /\ InitStoreIdle /\ InitIncludeIdle /\ InitCompileIdle /\ InitApiIdle

Init == InitGraph /\ InitScope /\ InitSlicerIdle /\ InitOverloadIdle /\ InitPipelineIdle

SpecResolve == Init /\ [][NextGraph]_vars

SpecScope == Init /\ [][NextScope]_vars

InitSlice ==
    /\ InitGraph
    /\ scopes = <<GlobalScope>>
    /\ bound = <<>>
    /\ lookup = NoLookup
    /\ InitSlicer
    /\ InitOverloadIdle
    /\ InitPipelineIdle

SpecSlice == InitSlice /\ [][NextSlicer]_vars

InitOv == InitGraph /\ InitScope /\ InitSlicerIdle /\ InitOverload /\ InitPipelineIdle

SpecOverload == InitOv /\ [][NextOverload]_vars

InitParse ==
    /\ InitGraph /\ InitScope /\ InitSlicerIdle /\ InitOverloadIdle
    /\ InitParseSerial
    /\ InitStoreIdle
    /\ InitIncludeIdle
    /\ InitCompileIdle
    /\ InitApiIdle

SpecParse == InitParse /\ [][NextParse]_vars

\* the interpreter keeps running a walk that has a step left
SpecParseFair == InitParse /\ [][NextParse]_vars /\ WF_vars(NextParse)

InitParallel ==
    /\ InitGraph /\ InitScope /\ InitSlicerIdle /\ InitOverloadIdle
    /\ InitParseThreads
    /\ InitStoreIdle
    /\ InitIncludeIdle
    /\ InitCompileIdle
    /\ InitApiIdle

SpecParallel == InitParallel /\ [][NextThreads]_vars

InitVersioned ==
    /\ InitGraph /\ InitScope /\ InitSlicerIdle /\ InitOverloadIdle
    /\ InitParseIdle
    /\ InitStore
    /\ InitIncludeIdle
    /\ InitCompileIdle
    /\ InitApiIdle

SpecStore == InitVersioned /\ [][NextStore]_vars

InitIncluder ==
    /\ InitGraph /\ InitScope /\ InitSlicerIdle /\ InitOverloadIdle
    /\ InitParseIdle
    /\ InitStoreIdle
    /\ InitInclude
    /\ InitCompileIdle
    /\ InitApiIdle

SpecInclude == InitIncluder /\ [][NextInclude]_vars

InitCompiler ==
    /\ InitGraph /\ InitScope /\ InitSlicerIdle /\ InitOverloadIdle
    /\ InitParseIdle
    /\ InitStoreIdle
    /\ InitIncludeIdle
    /\ InitCompile
    /\ InitApiIdle

SpecCompile == InitCompiler /\ [][NextCompile]_vars

InitFacade ==
    /\ InitGraph /\ InitScope /\ InitSlicerIdle /\ InitOverloadIdle
    /\ InitParseIdle
    /\ InitStoreIdle
    /\ InitIncludeIdle
    /\ InitCompileIdle
    /\ InitApi

SpecApi == InitFacade /\ [][NextApi]_vars

-----------------------------------------------------------------------------
(* Claims about Graph.resolve_name *)

\* the qualified-name depth of a name: its signature suffix stripped, the
\* number of dotted segments that remain
QDepth(nm) ==
    LET chain == NameChain(nm)
    IN  Cardinality({i \in 1..Len(chain) : chain[i] = "."}) + 1

\* the last identifier segment of a name, its signature suffix stripped
LastIdent(nm) == LastOf(Split(NameChain(nm), "."))

Asked == query # NoQuery

Returned == {resolved[i] : i \in 1..Len(resolved)}

\* C1: resolve_name never returns the asking node itself, whatever the graph,
\* the identifier and the same-level policy.
C1_NeverReturnsAsker == Asked => query.cur \notin Returned

\* C1 witness: the asker's own last segment is the identifier asked for, the
\* asker is registered in node_map, same-level matching is on, and another
\* node was returned.
C1_Witness ==
    /\ Asked
    /\ query.allow
    /\ LastIdent(id_map[query.cur].name) = query.name
    /\ \E i \in 1..Len(node_map) : node_map[i][2] = query.cur
    /\ Returned # {}

\* C2: with same-level matching disabled every returned node is strictly
\* shallower than the asker, so none has the asker's depth, also when the
\* asker is a function whose name carries a signature suffix.
C2_StrictlyShallower ==
    (Asked /\ ~query.allow) =>
        \A r \in Returned : QDepth(id_map[r].name) < QDepth(id_map[query.cur].name)

\* C2 witness: a function asks with same-level matching off, a node of its own
\* depth carries the identifier, and a shallower node was returned.
C2_Witness ==
    /\ Asked
    /\ ~query.allow
    /\ EndsWith(id_map[query.cur].name, ")")
    /\ \E n \in DOMAIN id_map :
          /\ n # query.cur /\ n # 1
          /\ LastIdent(id_map[n].name) = query.name
          /\ QDepth(id_map[n].name) = QDepth(id_map[query.cur].name)
    /\ Returned # {}

\* C3: under either policy no returned node is deeper than the asker.
C3_NeverDeeper ==
    Asked => \A r \in Returned : QDepth(id_map[r].name) <= QDepth(id_map[query.cur].name)

\* C3 witness: the identifier is asked from depth 2 while both a depth-1 and a
\* depth-3 declaration of it exist; the depth-1 one is returned.
C3_Witness ==
    /\ Asked
    /\ QDepth(id_map[query.cur].name) = 2
    /\ \E n \in DOMAIN id_map :
          /\ n # 1
          /\ LastIdent(id_map[n].name) = query.name
          /\ QDepth(id_map[n].name) = 3
          /\ \E i \in 1..Len(node_map) : node_map[i][2] = n
    /\ \E r \in Returned : QDepth(id_map[r].name) = 1

\* the nodes the name index holds
Registered == {node_map[i][2] : i \in 1..Len(node_map)}

\* the depth the asker is compared at: a function's signature segment does
\* not count
Qualifies(n) ==
    /\ LastIdent(id_map[n].name) = query.name
    /\ n # query.cur
    /\ \/ QDepth(id_map[n].name) < QDepth(id_map[query.cur].name)
       \/ query.allow /\ QDepth(id_map[n].name) = QDepth(id_map[query.cur].name)

\* C25: resolve_name returns exactly the registered nodes whose last name
\* segment is the identifier, that are not the asker and that are shallower
\* than the asker (or as deep, under the same-level policy): none is omitted
\* and each is returned once.
C25_ReturnsAllOnce ==
    Asked =>
        /\ Returned = {n \in Registered : Qualifies(n)}
        /\ \A i, j \in 1..Len(resolved) : resolved[i] = resolved[j] => i = j

\* C25 witness: two registered nodes qualify, one of them a function whose
\* name carries a signature segment, and both were returned.
C25_Witness ==
    /\ Asked
    /\ Len(resolved) >= 2
    /\ \E r \in Returned : EndsWith(id_map[r].name, ")")
    /\ \E n \in Registered : ~Qualifies(n)

-----------------------------------------------------------------------------
(* Claims about Scope.define and Scope.resolve *)

\* the scopes walked by a lookup that starts at s, innermost first
LookupChain(s) == UpChain(scopes, s)

\* the scopes of a lookup's chain in which the name was defined at some time
Binders(s, name) ==
    {i \in 1..Len(LookupChain(s)) : bound[LookupChain(s)[i]][name] # NoNode}

Nearest(s, name) == LookupChain(s)[CHOOSE i \in Binders(s, name) : \A j \in Binders(s, name) : i <= j]

Looked == lookup # NoLookup

\* C4: a successful resolve returns the node most recently defined for the
\* name in the nearest scope of the chain that binds it; an inner binding
\* shadows every outer one.
C4_NearestLatestBinding ==
    (Looked /\ Binders(lookup.scope, lookup.name) # {}) =>
        /\ ~lookup.error
        /\ lookup.value = bound[Nearest(lookup.scope, lookup.name)][lookup.name]

\* C4 witness: the name is bound in the asking scope and, to another node, in
\* an ancestor; the lookup returned the inner node.
C4_Witness ==
    /\ Looked
    /\ ~lookup.error
    /\ bound[lookup.scope][lookup.name] = lookup.value
    /\ \E a \in 1..Len(scopes) :
          /\ a # lookup.scope
          /\ \E i \in 1..Len(LookupChain(lookup.scope)) : LookupChain(lookup.scope)[i] = a
          /\ bound[a][lookup.name] \notin {NoNode, lookup.value}

\* C5: resolve fails with the unbound-name error exactly when no scope of the
\* chain binds the name, and a failed lookup changes no scope's bindings.
C5_UnboundExactlyWhenNoBinder ==
    /\ [](Looked => (lookup.error <=> Binders(lookup.scope, lookup.name) = {}))
    /\ [][(lookup' # NoLookup /\ lookup'.error) => scopes' = scopes]_vars

\* C5 witness: a lookup failed in a scope with a parent while some scope off
\* the chain binds the name.
C5_Witness ==
    /\ Looked
    /\ lookup.error
    /\ scopes[lookup.scope].parent # 0
    /\ \E a \in 1..Len(scopes) : lookup.name \in DOMAIN scopes[a].nodes

-----------------------------------------------------------------------------
(* Claims about the Slicer *)

Types == 1..Len(prog.types)

Snapshots(t) == slice_store[t].versions

\* how many of the functions before position i share the bare name of fs[i]
EarlierSameName(fs, i) == Cardinality({j \in 1..(i - 1) : fs[j].name = fs[i].name})

\* C6: the fragments of the inline member functions of a type are keyed
\* <qualified name of the type>.<bare name>.<ordinal>, the ordinals of one
\* bare name counting 0, 1, ... in declaration order.
C6_OverloadKeys ==
    \A t \in Types : \A v \in 1..Len(Snapshots(t)) :
        LET fs == prog.types[t].funcs
            items == Snapshots(t)[v].func.items
        IN  /\ Len(items) = Len(fs)
            /\ \A i \in 1..Len(fs) :
                  items[i][1] = Dotted(prog.types[t].name) \o "." \o fs[i].name \o "."
                                   \o ToString(EarlierSameName(fs, i))

\* an overload of ov_funcs finds every ordinal 0..99 of its bare name taken
Exhausted(i) == EarlierSameName(ov_funcs, i) >= MaxOrdinal

HasFragment(f) ==
    \E e \in 1..Len(ov_call.func.items) :
        LET node == ov_call.func.items[e][2]
        IN  FragmentOf(OvClass, f) = [raised |-> "none", name |-> node.name, text |-> node.text]

\* C7: when the ordinals 0..99 of a bare name are all used, slicing a further
\* function of that name fails with OverloadExhausted for that function, and
\* every other function still gets its fragment.
C7_ExhaustionRaises ==
    (ov_call.returned /\ \E i \in 1..Len(ov_funcs) : Exhausted(i)) =>
        /\ ov_call.raised = "OverloadExhausted"
        /\ \A i \in 1..Len(ov_funcs) : ~Exhausted(i) => HasFragment(ov_funcs[i])

\* C8: slicing a type with no data field and no inline member function adds
\* no version to its slice store, however often it is sliced.
C8_EmptyTypeNoSnapshot ==
    \A t \in Types :
        (prog.types[t].fields = <<>> /\ prog.types[t].funcs = <<>>) => Snapshots(t) = <<>>

\* every type nested, at any depth, in type t
RECURSIVE Descendants(_)
Descendants(t) ==
    LET direct == {k \in Types : prog.types[k].parent = t}
    IN  direct \cup UNION {Descendants(k) : k \in direct}

\* C9: when the innermost active call is about to build the fragments of its
\* type, and when it is about to write the snapshot, the snapshot of every
\* type nested in that type has been written in this pass.
C9_NestedSlicedFirst ==
    (frames # <<>> /\ (Top.stage = "store" \/ (Top.stage = "nest" /\ NestedDone(Top)))) =>
        Descendants(Top.node) \subseteq written

\* C9 witness: the fragments of a type have been built whose nested type has
\* a nested type of its own, and both were given their snapshot in this pass.
C9_Witness ==
    /\ frames # <<>>
    /\ frames[1].stage = "store"
    /\ \E a \in Types, b \in Types :
          /\ prog.types[a].parent = frames[1].node
          /\ prog.types[b].parent = a
          /\ {a, b} \subseteq written

\* the scopes that enclose type t in the source, outermost first, t last
RECURSIVE Enclosing(_)
Enclosing(t) ==
    IF t = 0
    THEN (IF prog.ns THEN <<[type |-> "namespace_definition", name |-> <<"NS">>]>> ELSE <<>>)
    ELSE Append(Enclosing(prog.types[t].parent),
                [type |-> prog.types[t].type, name |-> prog.types[t].name])

\* the data fragment C10 describes for type t
ExpectedData(t) ==
    LET ch == Enclosing(t)
        n == Len(ch)
        fs == prog.types[t].fields
    IN  [i \in 1..n |-> Spaces(4 * (i - 1)) \o scope_str(ch[i].type) \o " "
                           \o LastOf(ch[i].name) \o " {"]
        \o [i \in 1..Len(fs) |-> Spaces(4 * n) \o fs[i]]
        \o [i \in 1..n |-> Spaces(4 * (n - i)) \o "}"]

\* C10: the data fragment of a type is one header per enclosing scope,
\* outermost first and ending with the type itself, then its data fields in
\* declaration order, then one closing delimiter per header.
C10_DataFragmentShape ==
    \A t \in Types : \A v \in 1..Len(Snapshots(t)) :
        /\ Snapshots(t)[v].data.text = ExpectedData(t)
        /\ Snapshots(t)[v].data.indent = 0

\* C27: every snapshot written for a type lists as its nested types exactly
\* the type's direct nested type definitions, in declaration order, also
\* when those nested types were sliced before the snapshot was written.
C27_SnapshotListsNested ==
    \A t \in Types : \A v \in 1..Len(Snapshots(t)) :
        Snapshots(t)[v].nest_classes = NestedOf(prog, t)

\* the header line of type t in a data fragment, at the depth of t
OwnHeader(t) ==
    Spaces(4 * (Len(Enclosing(t)) - 1)) \o scope_str(prog.types[t].type) \o " "
        \o LastOf(prog.types[t].name) \o " {"

\* C28: a nested type sliced through its enclosing type has its fragments
\* built from its own scope: each inline function is qualified and keyed by
\* the nested type's qualified name, and the innermost header of the data
\* fragment is the nested type's own header.
C28_NestedOwnScope ==
    \A t \in Types : prog.types[t].parent # 0 =>
        \A v \in 1..Len(Snapshots(t)) :
            LET snap == Snapshots(t)[v]
                fs == prog.types[t].funcs
                depth == Len(Enclosing(t))
            IN  /\ \A i \in 1..Len(snap.func.items) :
                      /\ StartsWith(snap.func.items[i][1], Dotted(prog.types[t].name) \o ".")
                      /\ i <= Len(fs) =>
                            FragmentOf(prog.types[t].name, fs[i])
                               = [raised |-> "none", name |-> snap.func.items[i][2].name,
                                  text |-> snap.func.items[i][2].text]
                /\ Len(snap.data.text) >= depth
                /\ snap.data.text[depth] = OwnHeader(t)

-----------------------------------------------------------------------------
(* Claims about the parse pass *)

\* the Node objects of the graph of pass p, by position of creation
Objs(p) == 1..Len(pg[p].nodes)

IdOf(p, o) == pg[p].nodes[o].node.id

ParentOf(p, o) == pg[p].nodes[o].node.parent

\* how many times object o is listed among the children of object q
Listed(p, q, o) ==
    Cardinality({i \in 1..Len(pg[p].nodes[q].children) : pg[p].nodes[q].children[i] = o})

\* C14: within one parse pass the ids of the graph's nodes are pairwise
\* distinct and strictly increasing in the order of creation, the root being
\* the first node created.
C14_IdsUniqueIncreasing ==
    \A p \in Passes :
        /\ \A i, j \in Objs(p) : i < j => IdOf(p, i) < IdOf(p, j)
        /\ pg[p].phase # "new" => pg[p].root = 1 /\ ParentOf(p, 1) = NoNode

\* both passes are over, the second one having restarted the counter, and
\* each graph has inner nodes and leaves
C14_Witness ==
    /\ \A p \in Passes : pg[p].phase = "done" /\ Len(pg[p].nodes) >= 3
    /\ \E p \in Passes : Len(pg[p].nodes) = MaxTsNodes /\ IdOf(p, MaxTsNodes) = MaxTsNodes

\* C15: every node but the root is listed exactly once among the children of
\* the node its parent pointer names, and among no other node's children.
C15_ListedOnceUnderParent ==
    \A p \in Passes : \A o \in Objs(p) \ {pg[p].root} : \A q \in Objs(p) :
        Listed(p, q, o) = (IF q = ParentOf(p, o) THEN 1 ELSE 0)

\* a finished graph in which one node has two children and a grandchild
C15_Witness ==
    \E p \in Passes :
        /\ pg[p].phase = "done"
        /\ \E q \in Objs(p) : Len(pg[p].nodes[q].children) >= 2
        /\ \E o \in Objs(p) : ParentOf(p, o) # NoNode /\ ParentOf(p, o) # pg[p].root

\* C16: when the node creations of two parse passes interleave, each graph
\* still gives its own nodes pairwise distinct ids and its id_map still holds
\* every one of its nodes.
C16_ParallelIdSpaces ==
    \A p \in Passes :
        /\ \A i, j \in Objs(p) : i # j => IdOf(p, i) # IdOf(p, j)
        /\ \A o \in Objs(p) :
              /\ IdOf(p, o) \in DOMAIN pg[p].id_map
              /\ pg[p].id_map[IdOf(p, o)] = o

\* the tree-sitter node an object was made for
TsOf(p, o) == pg[p].nodes[o].ts_node

ParseDone(p) == pg[p].phase = "done"

\* one object and one id_map entry per node of the tree, each entry keyed by
\* the id of the node it holds
OnePerSyntaxNode(p) ==
    /\ Len(pg[p].nodes) = Len(ts_trees[p])
    /\ {TsOf(p, o) : o \in Objs(p)} = 1..Len(ts_trees[p])
    /\ DOMAIN pg[p].id_map = {IdOf(p, o) : o \in Objs(p)}
    /\ Cardinality(DOMAIN pg[p].id_map) = Len(ts_trees[p])
    /\ \A k \in DOMAIN pg[p].id_map : IdOf(p, pg[p].id_map[k]) = k

\* a node hangs under the node made for its syntax parent and has the larger id
ParentFirst(p) ==
    \A o \in Objs(p) \ {pg[p].root} :
        /\ ParentOf(p, o) \in Objs(p)
        /\ TsOf(p, ParentOf(p, o)) = ts_trees[p][TsOf(p, o)]
        /\ IdOf(p, o) > IdOf(p, ParentOf(p, o))

\* the children of a node are the nodes of its syntax children, in their order
ChildOrderKept(p) ==
    \A o \in Objs(p) :
        [i \in 1..Len(pg[p].nodes[o].children) |-> TsOf(p, pg[p].nodes[o].children[i])]
            = TsChildren(ts_trees[p], TsOf(p, o))

\* C26: the walk of _tree_to_graph comes to an end on every tree, and then
\* id_map holds exactly one entry per syntax node, keyed by the node's own
\* id; every node has a larger id than its parent, and the children of each
\* node are in the order of the syntax tree's children.
C26_WalkEndsOnePerNode ==
    /\ <>(\A p \in Passes : ParseDone(p))
    /\ [](\A p \in Passes :
            ParseDone(p) => OnePerSyntaxNode(p) /\ ParentFirst(p) /\ ChildOrderKept(p))

\* a finished walk of a tree of full size in which the root has two
\* children and the stack held a node while its sibling's subtree was built
C26_Witness ==
    \E p \in Passes :
        /\ ParseDone(p)
        /\ Len(ts_trees[p]) = MaxTsNodes
        /\ Len(pg[p].nodes[pg[p].root].children) >= 2
        /\ \E o \in Objs(p) : ParentOf(p, o) # NoNode /\ ParentOf(p, o) # pg[p].root

-----------------------------------------------------------------------------
(* Claims about the versioned store *)

\* C17: after one or more add_version calls get_current_version returns the
\* payload of the most recent one; on a store never written it fails with
\* NotFound and returns no value.
C17_CurrentIsLatest ==
    vget.called =>
        IF vlast = NoPayload
        THEN vget.error = "NotFound" /\ vget.value = NoPayload
        ELSE vget.error = "none" /\ vget.value = vlast

\* a lookup on a store whose latest version differs from its first
C17_Witness ==
    /\ vget.called
    /\ version_count(vstore) >= 2
    /\ vstore.versions[1] # LastOf(vstore.versions)
    /\ vget.value = LastOf(vstore.versions)

-----------------------------------------------------------------------------
(* Claims about the Includer *)

\* the include directives of a list of items in source order, those inside
\* #ifdef blocks included
RECURSIVE Directives(_)
Directives(items) ==
    IF items = <<>>
    THEN <<>>
    ELSE LET h == Head(items)
         IN  (IF h.type = "preproc_include" THEN <<h.file>>
              ELSE IF h.type = "preproc_ifdef" THEN Directives(h.body)
              ELSE <<>>) \o Directives(Tail(items))

\* the paths of the search tree at which a file is named name
PathsOf(name) ==
    {Join(disk.walk[i].root, name) : i \in {j \in 1..Len(disk.walk) : name \in disk.walk[j].files}}

\* the requester's directives that name a file of the search tree
Found == SelectSeq(Directives(graphs[1].items), LAMBDA f : PathsOf(f) # {})

IncludeDone == istatus.state = "done"

\* the files listed by the list object l
ListedFiles(l) == [i \in 1..Len(lists[l]) |-> graphs[lists[l][i]].name]

\* C11: when include_graph has finished, the dependency store of the root of
\* the returned graph holds exactly one version, and it lists one entry per
\* include directive found, in directive order, #ifdef blocks included.
C11_OneDependencySnapshot ==
    IncludeDone =>
        LET st == graphs[istatus.result].depend_store
        IN  /\ st.present
            /\ version_count(st) = 1
            /\ LET listed == ListedFiles(st.versions[1].include_files)
               IN  /\ Len(listed) = Len(Found)
                   /\ \A i \in 1..Len(Found) : listed[i] \in PathsOf(Found[i])

\* C12: visiting an include directive that names a file absent from the
\* search root raises nothing, adds no entry to include_files and leaves the
\* Includer's graph the same object with the same content.
C12_MissLeavesGraph ==
    [][(AtItem("preproc_include") /\ PathsOf(CurItem.file) = {}) =>
          /\ istatus'.state # "raised"
          /\ lists' = lists
          /\ includers' = includers
          /\ graphs' = graphs]_vars

\* the call of visit_preproc_include is returning into its hit branch
ReturningToInclude ==
    /\ istatus.state = "running"
    /\ ITop.pos > Len(ITop.items)
    /\ ITop.via = "include"

IsSuffix(t, u) == Len(t) <= Len(u) /\ SubSeq(u, Len(u) - Len(t) + 1, Len(u)) = t

\* C13: on every hit the requester's graph is replaced by a new graph parsed
\* from the included unit's text followed by the requester's current text,
\* the replaced graph being left as it was; the text of the returned graph
\* holds the text of every included unit ahead of the requester's original text.
C13_MergeThenReparse ==
    /\ [](IncludeDone =>
            LET t == graphs[istatus.result].text
            IN  /\ t[Len(t)] = Header("m")
                /\ \A i \in 1..Len(Found) : \E k \in 1..(Len(t) - 1) : t[k] \in PathsOf(Found[i]))
    /\ [][ReturningToInclude =>
            LET caller == iframes[Len(iframes) - 1].inc
                old == includers[caller].og
                new == includers'[caller].og
                ret == includers[ITop.inc].og
                unit == LastOf(lists[includers[caller].include_files])
            IN  /\ new \notin 1..Len(graphs)
                /\ new \in 1..Len(graphs')
                /\ IsSuffix(<<graphs[unit].name>>, graphs[ret].text)
                /\ graphs'[new].text = graphs[ret].text \o graphs[old].text
                /\ graphs'[old] = graphs[old]]_vars

\* two directives were hits, one of them for a header that includes another
C13_Witness ==
    /\ IncludeDone
    /\ Len(Found) = 2
    /\ Len(graphs[istatus.result].text) >= 4

\* C18: a version of a dependency store keeps listing what it listed when it
\* was added, whatever the Includer does afterwards.
C18_VersionsImmutable ==
    \A i \in 1..Len(dep_written) :
        LET w == dep_written[i]
            v == graphs[w.graph].depend_store.versions[w.version]
        IN  lists[v.include_files] = w.listed

\* the call of include_graph is over, by a return or by an exception
IncludeOver == istatus.state \in {"done", "raised"}

\* C29: include_graph comes to an end whatever the files of the search root
\* include, cycles of include directives among them, and when it is over a
\* dependency snapshot has been written for the root of the graph it returns
\* (runs that end because a named file cannot be opened are left aside).
C29_CyclesTerminate ==
    (IncludeOver /\ istatus.error # "FileNotFoundError") =>
        /\ IncludeDone
        /\ version_count(graphs[istatus.result].depend_store) >= 1

\* C30: whenever search_file returns a path for the file an include
\* directive names, a file is at that path in the search root, for an exact
\* match of the filename as for a match of the alternate extension only.
C30_ReturnedPathExists ==
    AtItem("preproc_include") =>
        LET path == search_file(disk, CurItem.file)
        IN  path # NoFile => path \in DOMAIN disk.at

-----------------------------------------------------------------------------
(* Claims about the Compiler *)

WorkNodes == 1..Len(Work)

\* the oracle's output for node n was unparsable on every attempt
OracleFailed(n) ==
    /\ Len(ctried[n]) = MaxAttempts
    /\ \A i \in 1..MaxAttempts : ctried[n][i] = "garbage"

\* the compile call for node n is over
Compiled(n) == n < cpos \/ cstatus \in {"done", "raised"}

\* C19: a node for which the oracle returned unparsable output on every
\* attempt is left without a code store: the store is absent, not created
\* empty.
C19_FailedNodeStoreAbsent ==
    \A n \in WorkNodes : (OracleFailed(n) /\ Compiled(n)) => ~code_store[n].present

\* C20: a failure on one node never aborts the run: when the run is over,
\* every node that follows a failed one has been handed to the oracle.
C20_FailureIsolated ==
    cstatus \in {"done", "raised"} => \A n \in WorkNodes : Len(ctried[n]) > 0

\* C21: for one fragment the oracle is invoked at most 3 times, a further
\* invocation follows only an unparsable response, and a successful compile
\* adds exactly one version to the node's code store.
C21_BoundedRetries ==
    \A n \in WorkNodes :
        /\ Len(ctried[n]) <= 3
        /\ \A i \in 1..(Len(ctried[n]) - 1) : ctried[n][i] = "garbage"
        /\ n < cpos => /\ LastOf(ctried[n]) = "json"
                       /\ version_count(code_store[n]) = 1

\* a node was transformed on the third attempt, after two unparsable responses
C21_Witness ==
    \E n \in WorkNodes :
        /\ n < cpos
        /\ ctried[n] = <<"garbage", "garbage", "json">>
        /\ version_count(code_store[n]) = 1

-----------------------------------------------------------------------------
(* Further claims about the Slicer *)

FuncKeys(snap) == {snap.func.items[i][1] : i \in 1..Len(snap.func.items)}

\* C22: two slices of the same unchanged type give the same data fragment
\* text, the same function fragment keys and the same fragment per key.
C22_SliceTwiceSame ==
    \A t \in Types : \A v, w \in 1..Len(Snapshots(t)) :
        LET a == Snapshots(t)[v]
            b == Snapshots(t)[w]
        IN  /\ a.data.text = b.data.text
            /\ FuncKeys(a) = FuncKeys(b)
            /\ \A i \in 1..Len(a.func.items), j \in 1..Len(b.func.items) :
                  a.func.items[i][1] = b.func.items[j][1] => a.func.items[i][2] = b.func.items[j][2]

\* the unit was sliced twice; a type with data fields and overloaded inline
\* functions and a type nested in it both hold two snapshots
C22_Witness ==
    /\ passes = 2
    /\ frames = <<>>
    /\ \E t, k \in Types :
          /\ prog.types[k].parent = t
          /\ Len(Snapshots(t)) = 2 /\ Len(Snapshots(k)) = 2
          /\ prog.types[t].fields # <<>> /\ prog.types[t].funcs # <<>>
          /\ prog.types[k].fields # <<>> /\ prog.types[k].funcs # <<>>

-----------------------------------------------------------------------------
(* Claims about llmcc.run *)

\* the four combinations of arguments the claim names
Rejected(a) ==
    \/ a.files = None /\ a.dirs = None
    \/ a.files # None /\ a.dirs # None
    \/ a.pagerank /\ ~a.design_graph
    \/ a.depends /\ a.dependents

\* C24: run raises ValueError without invoking the backend exactly when
\* neither or both of files and dirs are given, pagerank is set without
\* design_graph, or depends and dependents are both set; otherwise it
\* invokes the backend once and returns what the backend returned.
C24_RunValidation ==
    api_pc \notin {"idle", "start"} =>
        IF Rejected(api_args)
        THEN api_pc = "raised" /\ api_error.type = "ValueError" /\ api_calls = 0
        ELSE /\ api_pc \in {"calling", "returned"}
             /\ api_error = NoError
             /\ api_calls = 1
             /\ api_pc = "returned" => api_result = backend_out

\* a call with depends and dependents both set, and nothing else wrong, raised
C24_Witness ==
    /\ api_pc = "raised"
    /\ api_args.dirs # None /\ api_args.files = None
    /\ ~api_args.pagerank
    /\ api_args.depends /\ api_args.dependents
    /\ api_calls = 0

====
